---- MODULE Spec2Model ----
(***************************************************************************)
(* A model of the qoi crate: the header codec, the pixel and cache         *)
(* primitives, the encoder (src/src/encode.rs) and the decoder             *)
(* (src/src/decode.rs).  Pixel, Qoi, QoiHeader and Channels come from      *)
(* src/src/lib.rs.                                                         *)
(*                                                                         *)
(* Machine integers.  u8 values are naturals below 256.  u32 and usize     *)
(* values do not fit the model checker's integers, so a u32 is a sequence  *)
(* of 4 base-256 digits and a usize a sequence of 8 base-256 digits, least *)
(* significant digit first.  All size arithmetic is done on digits, so     *)
(* that overflow of the 64-bit usize is exact.                             *)
(***************************************************************************)
EXTENDS Integers, Sequences, FiniteSets, TLC

(***************************************************************************)
(* Bounds of the model.                                                    *)
(***************************************************************************)
\* Largest number of pixels of an image whose pixels are enumerated.
MaxPixels == 3
\* Small widths are 0..MaxWidth, small heights 0..MaxHeight.
MaxWidth == 3
MaxHeight == 1

(***************************************************************************)
(* Machine widths and program constants.                                   *)
(***************************************************************************)
U32_BYTES == 4
USIZE_BYTES == 8
HEADER_SIZE == 14
PADDING == 4
INDEX == 0
RUN_8 == 64
RUN_16 == 96
DIFF_8 == 128
DIFF_16 == 192
DIFF_24 == 224
COLOR == 240
MASK_2 == 192
MASK_3 == 224
MASK_4 == 240
CACHE_SIZE == 64
RUN_CAP == 8224
\* b"qoif"
MAGIC == <<113, 111, 105, 102>>
\* Qoi::MAX_SIZE, the 1 GiB ceiling.
MAX_SIZE == 1073741824

(***************************************************************************)
(* Bit operations on u8 / u16 values, computed bit by bit.                 *)
(***************************************************************************)
Pow2(n) == <<1, 2, 4, 8, 16, 32, 64, 128, 256, 512, 1024, 2048, 4096, 8192, 16384, 32768, 65536>>[n + 1]

Bit(x, i) == (x \div Pow2(i)) % 2

\* One bit of x & y, x | y and x ^ y.
AndBit(x, y, i) == Bit(x, i) * Bit(y, i) * Pow2(i)
OrBit(x, y, i) == (IF Bit(x, i) + Bit(y, i) > 0 THEN 1 ELSE 0) * Pow2(i)
XorBit(x, y, i) == ((Bit(x, i) + Bit(y, i)) % 2) * Pow2(i)

And8(x, y) == AndBit(x, y, 0) + AndBit(x, y, 1) + AndBit(x, y, 2) + AndBit(x, y, 3)
            + AndBit(x, y, 4) + AndBit(x, y, 5) + AndBit(x, y, 6) + AndBit(x, y, 7)
Or8(x, y) == OrBit(x, y, 0) + OrBit(x, y, 1) + OrBit(x, y, 2) + OrBit(x, y, 3)
           + OrBit(x, y, 4) + OrBit(x, y, 5) + OrBit(x, y, 6) + OrBit(x, y, 7)
Xor8(x, y) == XorBit(x, y, 0) + XorBit(x, y, 1) + XorBit(x, y, 2) + XorBit(x, y, 3)
            + XorBit(x, y, 4) + XorBit(x, y, 5) + XorBit(x, y, 6) + XorBit(x, y, 7)

\* The operators on u8 and u16 values, byte by byte.
BitAnd(x, y) == 256 * And8(x \div 256, y \div 256) + And8(x % 256, y % 256)
BitOr(x, y)  == 256 * Or8(x \div 256, y \div 256) + Or8(x % 256, y % 256)
BitXor(x, y) == 256 * Xor8(x \div 256, y \div 256) + Xor8(x % 256, y % 256)
Shl(x, n) == x * Pow2(n)
Shr(x, n) == x \div Pow2(n)
\* `as u8` of an i16 / u16 value: the low 8 bits.
AsU8(x) == x % 256

(***************************************************************************)
(* Digit arithmetic for u32 / usize.                                       *)
(***************************************************************************)
Zeros(n) == [i \in 1..n |-> 0]

\* The digits of a natural below 2^31, padded to n digits.
RECURSIVE Digits(_, _)
Digits(x, n) == IF n = 0 THEN <<>> ELSE <<x % 256>> \o Digits(x \div 256, n - 1)

\* `x as usize` for a u32.
Widen(d) == d \o Zeros(USIZE_BYTES - Len(d))

RECURSIVE IsZero(_)
IsZero(d) == IF d = <<>> THEN TRUE ELSE Head(d) = 0 /\ IsZero(Tail(d))

\* Numeric order on digit sequences of equal length.
RECURSIVE DLess(_, _)
DLess(a, b) ==
    IF a = <<>> THEN FALSE
    ELSE LET n == Len(a)
         IN  IF a[n] # b[n] THEN a[n] < b[n]
             ELSE DLess(SubSeq(a, 1, n - 1), SubSeq(b, 1, n - 1))

\* Carry propagation: column sums to base-256 digits, one digit longer.
RECURSIVE Carry(_, _)
Carry(cols, c) ==
    IF cols = <<>> THEN <<c>>
    ELSE LET t == Head(cols) + c
         IN  <<t % 256>> \o Carry(Tail(cols), t \div 256)

RECURSIVE ColSum(_, _, _, _)
ColSum(a, b, k, i) ==
    IF i > Len(a) THEN 0
    ELSE (IF k - i + 1 >= 1 /\ k - i + 1 <= Len(b) THEN a[i] * b[k - i + 1] ELSE 0)
         + ColSum(a, b, k, i + 1)

\* Full product of two digit sequences: Len(a) + Len(b) + 1 digits.
FullMul(a, b) == Carry([k \in 1..(Len(a) + Len(b)) |-> ColSum(a, b, k, 1)], 0)

\* Full sum of two digit sequences of equal length: one digit longer.
FullAdd(a, b) == Carry([k \in 1..Len(a) |-> a[k] + b[k]], 0)

Low(d) == SubSeq(d, 1, USIZE_BYTES)
Overflows(d) == ~IsZero(SubSeq(d, USIZE_BYTES + 1, Len(d)))
USIZE_MAX == [i \in 1..USIZE_BYTES |-> 255]

\* usize::saturating_mul, usize::saturating_add
saturating_mul(a, b) == LET p == FullMul(a, b) IN IF Overflows(p) THEN USIZE_MAX ELSE Low(p)
saturating_add(a, b) == LET s == FullAdd(a, b) IN IF Overflows(s) THEN USIZE_MAX ELSE Low(s)

\* A usize that fits the model's integers (below 2^24), as an integer.
IsSmall(d) == IsZero(SubSeq(d, 4, Len(d)))
ToInt(d) == d[1] + 256 * d[2] + 65536 * d[3]
FromInt(x) == Digits(x, USIZE_BYTES)

\* dest.len() < size, for a buffer length that is a small integer.
LenLess(len, size) == DLess(FromInt(len), size)

(***************************************************************************)
(* Channels, Pixel, QoiHeader (src/src/lib.rs).                            *)
(***************************************************************************)
Channels == {"Three", "Four"}

\* Channels::len
ChannelsLen(c) == IF c = "Three" THEN 3 ELSE 4

\* A conversion that takes every byte other than 3 for four channels.
ChannelsTryFromLenient(value) ==
    IF value = 3 THEN [ok |-> TRUE, channels |-> "Three"]
    ELSE [ok |-> TRUE, channels |-> "Four"]

\* impl TryFrom<u8> for Channels: "Channels" stands for Err(QoiError::Channels).
ChannelsTryFrom(value) ==
    CASE value = 3 -> [ok |-> TRUE, channels |-> "Three"]
      [] value = 4 -> [ok |-> TRUE, channels |-> "Four"]
      [] OTHER     -> [ok |-> FALSE, channels |-> "Three"]

\* Pixel::new
PixelNew(r, g, b, a) == [r |-> r, g |-> g, b |-> b, a |-> a]

\* Pixel::default
PixelDefault == PixelNew(0, 0, 0, 0)

\* A hash that adds the channels.
cache_index_sum(p) == (p.r + p.g + p.b + p.a) % CACHE_SIZE

\* Pixel::cache_index
cache_index(p) == BitXor(BitXor(BitXor(p.r, p.g), p.b), p.a) % CACHE_SIZE

\* An addition that stops at 0 and at 255.
clamping_add(v, change) ==
    IF v + change > 255 THEN 255 ELSE IF v + change < 0 THEN 0 ELSE v + change

\* u8::wrapping_add(change as u8) for an i8 change
wrapping_add(v, change) == (v + AsU8(change)) % 256

modify_r(p, change) == [p EXCEPT !.r = wrapping_add(p.r, change)]
modify_g(p, change) == [p EXCEPT !.g = wrapping_add(p.g, change)]
modify_b(p, change) == [p EXCEPT !.b = wrapping_add(p.b, change)]
modify_a(p, change) == [p EXCEPT !.a = wrapping_add(p.a, change)]

\* [Pixel::default(); 64], indexed 0..63
NewCache == [i \in 0..(CACHE_SIZE - 1) |-> PixelDefault]

Reverse(s) == [i \in 1..Len(s) |-> s[Len(s) + 1 - i]]

\* u32::to_be_bytes / u32::from_be_bytes on least-significant-first digits
\* u32::to_le_bytes: the bytes in memory order, least significant first.
to_le_bytes(d) == d

to_be_bytes(d) == Reverse(d)
from_be_bytes(bytes) == Reverse(bytes)

\* QoiHeader::new
QoiHeaderNew(w, h, c, cs) == [width |-> w, height |-> h, channels |-> c, colour_space |-> cs]

\* A header writer that leaves dest[13] as it was initialised.
to_array_no_colour_space(header) ==
    MAGIC \o <<header.width[4], header.width[3], header.width[2], header.width[1]>>
          \o <<header.height[4], header.height[3], header.height[2], header.height[1]>>
          \o <<ChannelsLen(header.channels), 0>>

\* QoiHeader::to_array
to_array(header) ==
    MAGIC \o to_be_bytes(header.width) \o to_be_bytes(header.height)
          \o <<ChannelsLen(header.channels), header.colour_space>>

NoHeader == QoiHeaderNew(Zeros(U32_BYTES), Zeros(U32_BYTES), "Three", 0)

\* A parser that does not compare the tag.
new_from_slice_any_tag(input) ==
    IF Len(input) < HEADER_SIZE
    THEN [err |-> "InputSmallerThanHeader", header |-> NoHeader]
    ELSE LET ch == ChannelsTryFrom(input[13])
         IN  IF ~ch.ok
             THEN [err |-> "Channels", header |-> NoHeader]
             ELSE [err |-> "",
                   header |-> [width |-> <<input[8], input[7], input[6], input[5]>>,
                               height |-> <<input[12], input[11], input[10], input[9]>>,
                               channels |-> ch.channels,
                               colour_space |-> input[14]]]

\* QoiHeader::new_from_slice: err is "" on success.
new_from_slice(input) ==
    IF Len(input) < HEADER_SIZE
    THEN [err |-> "InputSmallerThanHeader", header |-> NoHeader]
    ELSE IF SubSeq(input, 1, 4) # MAGIC
    THEN [err |-> "IncorrectHeaderMagic", header |-> NoHeader]
    ELSE LET ch == ChannelsTryFrom(input[13])
         IN  IF ~ch.ok
             THEN [err |-> "Channels", header |-> NoHeader]
             ELSE [err |-> "",
                   header |-> [width |-> from_be_bytes(SubSeq(input, 5, 8)),
                               height |-> from_be_bytes(SubSeq(input, 9, 12)),
                               channels |-> ch.channels,
                               colour_space |-> input[14]]]

(***************************************************************************)
(* Results of a call.                                                      *)
(***************************************************************************)
NoResult == [kind |-> "None", err |-> "", len |-> 0]
Ok(n) == [kind |-> "Ok", err |-> "", len |-> n]
Err(e) == [kind |-> "Err", err |-> e, len |-> 0]
\* A panic (index out of bounds, arithmetic overflow): the call returns nothing.
Panic == [kind |-> "Panic", err |-> "", len |-> 0]

(***************************************************************************)
(* The encoder's per-pixel step (src/src/encode.rs, body of the for loop). *)
(***************************************************************************)
is_between(x, low, high) == x >= low /\ x <= high

\* A small-delta test that accepts +2.
can_diff_8_wide(dr, dg, db, da) ==
    da = 0 /\ is_between(dr, -2, 2) /\ is_between(dg, -2, 2) /\ is_between(db, -2, 2)

can_diff_8(dr, dg, db, da) ==
    da = 0 /\ is_between(dr, -2, 1) /\ is_between(dg, -2, 1) /\ is_between(db, -2, 1)

diff_8(dr, dg, db) ==
    <<BitOr(BitOr(BitOr(DIFF_8, AsU8(Shl(dr + 2, 4))), AsU8(Shl(dg + 2, 2))), AsU8(db + 2))>>

can_diff_16(dr, dg, db, da) ==
    da = 0 /\ is_between(dr, -16, 15) /\ is_between(dg, -8, 7) /\ is_between(db, -8, 7)

\* A medium delta that packs blue above green.
diff_16_swapped(dr, dg, db) ==
    <<BitOr(DIFF_16, AsU8(dr + 16)),
      BitOr(AsU8(Shl(db + 8, 4)), AsU8(dg + 8))>>

diff_16(dr, dg, db) ==
    <<BitOr(DIFF_16, AsU8(dr + 16)),
      BitOr(AsU8(Shl(dg + 8, 4)), AsU8(db + 8))>>

can_diff_24(dr, dg, db, da) ==
    /\ is_between(dr, -16, 15) /\ is_between(dg, -16, 15)
    /\ is_between(db, -16, 15) /\ is_between(da, -16, 15)

diff_24(dr, dg, db, da) ==
    <<BitOr(DIFF_24, AsU8(Shr(dr + 16, 1))),
      BitOr(BitOr(AsU8(Shl(dr + 16, 7)), AsU8(Shl(dg + 16, 2))), AsU8(Shr(db + 16, 3))),
      BitOr(AsU8(Shl(db + 16, 5)), AsU8(da + 16))>>

\* The literal colour opcode: the command byte, then the changed components.
color(pixel, dr, dg, db, da) ==
    LET command == BitOr(BitOr(BitOr(BitOr(COLOR, IF dr # 0 THEN 8 ELSE 0),
                                     IF dg # 0 THEN 4 ELSE 0),
                               IF db # 0 THEN 2 ELSE 0),
                         IF da # 0 THEN 1 ELSE 0)
    IN  <<command>> \o (IF dr # 0 THEN <<pixel.r>> ELSE <<>>)
                    \o (IF dg # 0 THEN <<pixel.g>> ELSE <<>>)
                    \o (IF db # 0 THEN <<pixel.b>> ELSE <<>>)
                    \o (IF da # 0 THEN <<pixel.a>> ELSE <<>>)

\* A run flush that forgets `run -= 1` / `run -= 33` before packing the length.
RunBytesNoBias(run) ==
    IF run < 33
    THEN <<BitOr(RUN_8, AsU8(run))>>
    ELSE <<BitOr(RUN_16, AsU8(Shr(run, 8))), AsU8(run)>>

\* A run flush that switches to the two-byte opcode one pixel late.
RunBytesLateSwitch(run) ==
    IF run < 34
    THEN <<BitOr(RUN_8, AsU8(run - 1))>>
    ELSE <<BitOr(RUN_16, AsU8(Shr(run - 33, 8))), AsU8(run - 33)>>

\* Lines 61-72: the opcode of a flushed run of `run` pixels.
RunBytes(run) ==
    IF run < 33
    THEN <<BitOr(RUN_8, AsU8(run - 1))>>
    ELSE <<BitOr(RUN_16, AsU8(Shr(run - 33, 8))), AsU8(run - 33)>>

\* Lines 86-184: the opcode for a pixel that is not in the cache.
DeltaBytes(pixel, prev) ==
    LET dr == pixel.r - prev.r
        dg == pixel.g - prev.g
        db == pixel.b - prev.b
        da == pixel.a - prev.a
    IN  IF can_diff_24(dr, dg, db, da)
        THEN IF can_diff_8(dr, dg, db, da) THEN diff_8(dr, dg, db)
             ELSE IF can_diff_16(dr, dg, db, da) THEN diff_16(dr, dg, db)
             ELSE diff_24(dr, dg, db, da)
        ELSE color(pixel, dr, dg, db, da)

\* Lines 53-54: the pixel of a chunk of the source.
ChunkPixel(chunk, c) ==
    PixelNew(chunk[1], chunk[2], chunk[3], IF ChannelsLen(c) = 4 THEN chunk[4] ELSE 255)

\* A loop body that does not flush the run at the last chunk.
EncodePixelNoLastFlush(st, pixel, last) ==
    LET same  == pixel = st.previous_pixel
        run1  == IF same THEN st.run + 1 ELSE st.run
        flush == run1 > 0 /\ (~same \/ run1 = RUN_CAP)
        runb  == IF flush THEN RunBytes(run1) ELSE <<>>
        run2  == IF flush THEN 0 ELSE run1
        ci    == cache_index(pixel)
    IN  IF same
        THEN [cache |-> st.cache, previous_pixel |-> st.previous_pixel, run |-> run2,
              out |-> runb]
        ELSE IF pixel = st.cache[ci]
        THEN [cache |-> st.cache, previous_pixel |-> pixel, run |-> run2,
              out |-> runb \o <<BitOr(INDEX, ci)>>]
        ELSE [cache |-> [st.cache EXCEPT ![ci] = pixel], previous_pixel |-> pixel,
              run |-> run2,
              out |-> runb \o DeltaBytes(pixel, st.previous_pixel)]

\* Lines 56-188: one iteration of the loop on the state st = [cache,
\* previous_pixel, run]; `last` is index == last_chunk_index.  The result holds
\* the new state and the bytes written at dest_pos, in order.
EncodePixel(st, pixel, last) ==
    LET same  == pixel = st.previous_pixel
        run1  == IF same THEN st.run + 1 ELSE st.run
        flush == run1 > 0 /\ (~same \/ run1 = RUN_CAP \/ last)
        runb  == IF flush THEN RunBytes(run1) ELSE <<>>
        run2  == IF flush THEN 0 ELSE run1
        ci    == cache_index(pixel)
        hit   == pixel = st.cache[ci]
    IN  IF same
        THEN [cache |-> st.cache, previous_pixel |-> st.previous_pixel, run |-> run2,
              out |-> runb]
        ELSE IF hit
        THEN [cache |-> st.cache, previous_pixel |-> pixel, run |-> run2,
              out |-> runb \o <<BitOr(INDEX, ci)>>]
        ELSE [cache |-> [st.cache EXCEPT ![ci] = pixel], previous_pixel |-> pixel,
              run |-> run2,
              out |-> runb \o DeltaBytes(pixel, st.previous_pixel)]

\* dest[pos..pos + Len(bytes)] = bytes, for a write that is in bounds.
WriteAt(dest, at, bytes) ==
    [i \in 1..Len(dest) |->
        IF i > at /\ i <= at + Len(bytes) THEN bytes[i - at] ELSE dest[i]]

(***************************************************************************)
(* Inputs of the model.                                                    *)
(***************************************************************************)
U32(n) == Digits(n, U32_BYTES)

\* 0x7FFF0001 and 0x80010001: their product is 2^62 + 1, so that with four
\* channels width * height * 4 = 2^64 + 4.
WIDTH_A == <<1, 0, 255, 127>>
HEIGHT_A == <<1, 0, 1, 128>>
\* 0x80000000: 2^31 * 2^31 * 4 = 2^64.
DIM_B == <<0, 0, 0, 128>>

SmallDims == {<<U32(w), U32(h)>> : w \in 0..MaxWidth, h \in 0..MaxHeight}
BigDims == {<<WIDTH_A, HEIGHT_A>>, <<DIM_B, DIM_B>>}
Dims == SmallDims \cup BigDims

\* Rows of one pixel height, up to MaxRow pixels wide: long enough for a run
\* that takes the two-byte opcode.
MaxRow == 35
RowDims == {<<U32(n), U32(1)>> : n \in 1..MaxRow}

\* Rows of up to RUN_CAP + MaxExtra + 1 pixels: a run of more than the longest
\* run an opcode holds, and a pixel after it.
MaxExtra == 1
RunRowDims == {<<U32(n), U32(1)>> : n \in (RUN_CAP - 1)..(RUN_CAP + MaxExtra + 1)}

ColourSpaces == {0, 1}

\* width as usize * height as usize * channels.len() as usize, before it is
\* reduced to 64 bits.
RawProduct(w, h, c) == FullMul(Low(FullMul(w, h)), <<ChannelsLen(c)>>)

\* The products of the dimensions the model uses, as an explicit table (f @@ <<>>
\* is f, evaluated once for its whole domain).
RawProducts ==
    [k \in (Dims \cup RowDims \cup RunRowDims) \X Channels |->
        RawProduct(k[1][1], k[1][2], k[2])] @@ <<>>

\* QoiHeader::raw_image_size.  The multiplication is the plain `*` of usize:
\* when the product does not fit 64 bits the build decides the outcome, a panic
\* (overflow checks on) or the product modulo 2^64 (overflow checks off).  The
\* result is the set of outcomes a build can produce.
raw_image_size(header, c) ==
    LET p == RawProducts[<<<<header.width, header.height>>, c>>]
    IN  IF Overflows(p)
        THEN {[overflow |-> TRUE, panic |-> TRUE, size |-> Zeros(USIZE_BYTES)],
              [overflow |-> TRUE, panic |-> FALSE, size |-> Low(p)]}
        ELSE {[overflow |-> FALSE, panic |-> FALSE, size |-> Low(p)]}


\* Raw pixels the images are made of.  From the initial previous pixel
\* (0,0,0,255) they give a run, a small, a medium and a large delta and a
\* literal colour; (0,0,0,0) is the default content of the cache.
Chunks3 == {<<0, 0, 0>>, <<1, 1, 0>>, <<10, 5, 0>>, <<0, 12, 0>>, <<10, 20, 30>>}
Chunks4 == {<<0, 0, 0, 255>>, <<0, 0, 0, 0>>, <<1, 1, 0, 255>>, <<0, 0, 0, 250>>,
            <<10, 20, 30, 255>>}
RawChunks(c) == IF c = "Three" THEN Chunks3 ELSE Chunks4

RECURSIVE Flatten(_)
Flatten(chunks) == IF chunks = <<>> THEN <<>> ELSE Head(chunks) \o Flatten(Tail(chunks))

\* The number of pixels of the sources tried for an image of w x h pixels.
PixelCount(w, h) ==
    LET n == FullMul(w, h)
    IN  IF IsSmall(n) /\ ToInt(n) <= MaxPixels THEN ToInt(n) ELSE 1

\* The sources tried: every image of PixelCount pixels made of the raw chunks;
\* each of them one byte short; and the images of one repeated chunk followed
\* by a byte the image does not need.
Sources(w, h, c) ==
    LET n == PixelCount(w, h)
        exact == {Flatten(s) : s \in [1..n -> RawChunks(c)]}
    IN  exact \cup {SubSeq(s, 1, Len(s) - 1) : s \in exact \ {<<>>}}
              \cup {Flatten([i \in 1..n |-> ch]) \o <<7>> : ch \in RawChunks(c)}

\* The value a caller's destination holds before the call.
FILL == 170
Buffer(n) == [i \in 1..n |-> FILL]

(***************************************************************************)
(* State.                                                                  *)
(***************************************************************************)
VARIABLES
    pc,              \* where the run is: "start", "enc_loop", "enc_footer",
                     \* "enc_failed", "ready", "dec_loop", "dec_done"
    overflow_checks, \* the build's overflow checks: "on", "off", or "any" while
                     \* no arithmetic has overflowed yet
    enc_api,         \* the encoder entry point called
    width, height, channels, colour_space,   \* its arguments
    src,             \* the raw buffer (self)
    raw_size,        \* raw_image_size, once the size guard has passed
    enc_dest,        \* dest
    dest_pos,
    enc_cache,       \* cache
    previous_pixel,
    enc_run,         \* run
    index,           \* index of the chunk the loop is at
    enc_result,      \* what the encoder call returned
    stream,          \* the compressed bytes handed to the decoder (self)
    dec_api,         \* the decoder entry point called
    dec_override,    \* channels: Option<Channels> ("None", "Three", "Four")
    dec_header,      \* header
    dec_channels,    \* channels after unwrap_or
    dec_dest,        \* dest
    dec_dest0,       \* dest as the caller passed it
    dec_cache,       \* cache
    dec_run,         \* run
    pixel,
    pos,
    chunk_index,     \* index of the destination chunk the loop is at
    read_hi,         \* highest index of src read so far, -1 when none
    dec_result,      \* what the decoder call returned
    call             \* the arguments of a call made on its own, NoCall when none: of a
                     \* Pixel method (self, change), or of qoi_encode on a row
                     \* given as a pixel, the number of times it is repeated and
                     \* the pixel that follows

enc_vars == <<enc_api, width, height, channels, colour_space, src, raw_size, enc_dest,
              dest_pos, enc_cache, previous_pixel, enc_run, index, enc_result>>
dec_vars == <<dec_api, dec_override, dec_header, dec_channels, dec_dest, dec_dest0,
              dec_cache, dec_run, pixel, pos, chunk_index, read_hi, dec_result>>
vars == <<pc, overflow_checks, enc_vars, stream, dec_vars, call>>

InitEnc ==
    /\ enc_api = "none"
    /\ width = Zeros(U32_BYTES) /\ height = Zeros(U32_BYTES)
    /\ channels = "Three" /\ colour_space = 0
    /\ src = <<>> /\ raw_size = 0
    /\ enc_dest = <<>> /\ dest_pos = 0
    /\ enc_cache = NewCache
    /\ previous_pixel = PixelNew(0, 0, 0, 255)
    /\ enc_run = 0 /\ index = 0
    /\ enc_result = NoResult

InitDec ==
    /\ dec_api = "none" /\ dec_override = "None"
    /\ dec_header = NoHeader /\ dec_channels = "Three"
    /\ dec_dest = <<>> /\ dec_dest0 = <<>>
    /\ dec_cache = NewCache
    /\ dec_run = 0
    /\ pixel = PixelNew(0, 0, 0, 255)
    /\ pos = 0 /\ chunk_index = 0 /\ read_hi = -1
    /\ dec_result = NoResult

\* No Pixel method is being called on its own.
NoCall == [method |-> "none", self |-> PixelDefault, change |-> 0]

Init ==
    /\ pc = "start" /\ overflow_checks = "any" /\ InitEnc /\ stream = <<>> /\ InitDec
    /\ call = NoCall

\* The outcomes of raw_image_size the build at hand can produce, and the build
\* an outcome reveals.
SizeOutcomes(header, c) ==
    {o \in raw_image_size(header, c) :
        \/ ~o.overflow
        \/ overflow_checks = "any"
        \/ o.panic <=> overflow_checks = "on"}
Build(o) == IF ~o.overflow THEN overflow_checks ELSE IF o.panic THEN "on" ELSE "off"

(***************************************************************************)
(* The encoder (src/src/encode.rs).                                        *)
(***************************************************************************)
EncFail(api, w, h, c, cs, source, dest0, result) ==
    /\ pc' = "enc_failed"
    /\ enc_api' = api /\ width' = w /\ height' = h /\ channels' = c /\ colour_space' = cs
    /\ src' = source /\ enc_dest' = dest0 /\ enc_result' = result
    /\ UNCHANGED <<raw_size, dest_pos, enc_cache, previous_pixel, enc_run, index>>

\* qoi_encode, lines 34-50: the state before the first iteration of the loop.
\* `o` is the outcome of header.raw_image_size(channels).
EncodeEnter(api, w, h, c, cs, source, dest0, o) ==
    IF o.panic
    THEN EncFail(api, w, h, c, cs, source, dest0, Panic)
    ELSE IF DLess(o.size, FromInt(ChannelsLen(c))) \/ LenLess(Len(source), o.size)
    THEN EncFail(api, w, h, c, cs, source, dest0, Err("InputSize"))
    ELSE IF Len(dest0) < HEADER_SIZE
    THEN EncFail(api, w, h, c, cs, source, dest0, Panic)
    ELSE /\ pc' = "enc_loop"
         /\ enc_api' = api /\ width' = w /\ height' = h /\ channels' = c
         /\ colour_space' = cs /\ src' = source
         /\ raw_size' = ToInt(o.size)
         /\ enc_dest' = WriteAt(dest0, 0, to_array(QoiHeaderNew(w, h, c, cs)))
         /\ dest_pos' = HEADER_SIZE
         /\ enc_cache' = NewCache
         /\ previous_pixel' = PixelNew(0, 0, 0, 255)
         /\ enc_run' = 0 /\ index' = 0
         /\ enc_result' = NoResult

\* The largest encoding of an image: every pixel a literal colour.
WorstCase(w, h, c) == HEADER_SIZE + PixelCount(w, h) * (ChannelsLen(c) + 1) + PADDING

\* A call of qoi_encode with a destination that holds the largest encoding.
qoi_encode ==
    /\ pc = "start"
    /\ \E d \in Dims, c \in Channels, cs \in ColourSpaces :
         \E dest0 \in {Buffer(WorstCase(d[1], d[2], c))},
            o \in SizeOutcomes(QoiHeaderNew(d[1], d[2], c, cs), c),
            source \in Sources(d[1], d[2], c) :
              /\ EncodeEnter("qoi_encode", d[1], d[2], c, cs, source, dest0, o)
              /\ overflow_checks' = Build(o)
    /\ UNCHANGED <<stream, dec_vars, call>>

\* qoi_encode_to_vec, lines 205-209
ToVecSize(w, h, c) ==
    saturating_add(
        saturating_add(
            saturating_mul(saturating_mul(Widen(w), Widen(h)), FromInt(ChannelsLen(c))),
            FromInt(HEADER_SIZE)),
        FromInt(PADDING))

\* qoi_encode_to_vec, lines 205-217
qoi_encode_to_vec ==
    /\ pc = "start"
    /\ \E d \in Dims, c \in Channels, cs \in ColourSpaces :
         \E size \in {ToVecSize(d[1], d[2], c)}, source \in Sources(d[1], d[2], c) :
            IF DLess(FromInt(MAX_SIZE), size)
            THEN /\ EncFail("qoi_encode_to_vec", d[1], d[2], c, cs, source, <<>>,
                            Err("TooBig"))
                 /\ UNCHANGED overflow_checks
            ELSE \E dest0 \in {Zeros(ToInt(size))},
                    o \in SizeOutcomes(QoiHeaderNew(d[1], d[2], c, cs), c) :
                      /\ EncodeEnter("qoi_encode_to_vec", d[1], d[2], c, cs, source,
                                     dest0, o)
                      /\ overflow_checks' = Build(o)
    /\ UNCHANGED <<stream, dec_vars, call>>

\* One iteration of the loop of qoi_encode, lines 52-189.  A write past the end
\* of dest is an index out of bounds: the call panics.
EncodeLoop ==
    /\ pc = "enc_loop"
    /\ \E clen \in {ChannelsLen(channels)} :
       \E last \in {index = raw_size \div clen - 1} :
       \E r \in {EncodePixel([cache |-> enc_cache, previous_pixel |-> previous_pixel,
                              run |-> enc_run],
                             ChunkPixel(SubSeq(src, index * clen + 1, index * clen + clen),
                                        channels),
                             last)} :
           IF dest_pos + Len(r.out) > Len(enc_dest)
           THEN /\ pc' = "enc_failed"
                /\ enc_result' = Panic
                /\ UNCHANGED <<enc_dest, dest_pos, enc_cache, previous_pixel, enc_run, index>>
           ELSE /\ enc_dest' = WriteAt(enc_dest, dest_pos, r.out)
                /\ dest_pos' = dest_pos + Len(r.out)
                /\ enc_cache' = r.cache
                /\ previous_pixel' = r.previous_pixel
                /\ enc_run' = r.run
                /\ index' = index + 1
                /\ pc' = IF last THEN "enc_footer" ELSE "enc_loop"
                /\ UNCHANGED enc_result
    /\ UNCHANGED <<enc_api, width, height, channels, colour_space, src, raw_size>>
    /\ UNCHANGED <<overflow_checks, stream, dec_vars, call>>

\* qoi_encode, lines 191-195, and for qoi_encode_to_vec lines 218-219.  The
\* bytes produced are what the decoder is then given.
EncodeFooter ==
    /\ pc = "enc_footer"
    /\ IF dest_pos + PADDING > Len(enc_dest)
       THEN /\ pc' = "enc_failed"
            /\ enc_result' = Panic
            /\ UNCHANGED <<enc_dest, dest_pos, stream>>
       ELSE \E written \in {WriteAt(enc_dest, dest_pos, Zeros(PADDING))},
               size \in {dest_pos + PADDING} :
                /\ pc' = "ready"
                /\ dest_pos' = size
                /\ enc_dest' = IF enc_api = "qoi_encode_to_vec"
                               THEN SubSeq(written, 1, size) ELSE written
                /\ enc_result' = Ok(size)
                /\ stream' = SubSeq(written, 1, size)
    /\ UNCHANGED <<enc_api, width, height, channels, colour_space, src, raw_size,
                   enc_cache, previous_pixel, enc_run, index>>
    /\ UNCHANGED <<overflow_checks, dec_vars, call>>

(***************************************************************************)
(* The decoder (src/src/decode.rs).                                        *)
(***************************************************************************)
\* Lines 57-105: the opcode whose tag b1 was read; st.pos is past the tag and
\* buf is src.  get(src, pos) fails with InputSize at pos >= src.len(), so an
\* opcode of k payload bytes fails when st.pos + k > Len(buf).
DecodeOp(st, buf, b1) ==
    LET at(k) == buf[st.pos + k]        \* src[pos + k - 1], the k-th payload byte
        fits(k) == st.pos + k <= Len(buf)
        fail == [st EXCEPT !.err = "InputSize"]
    IN  IF BitAnd(b1, MASK_2) = INDEX
        THEN [st EXCEPT !.pixel = st.cache[BitXor(b1, INDEX)]]
        ELSE IF BitAnd(b1, MASK_3) = RUN_8
        THEN [st EXCEPT !.run = BitAnd(b1, 31)]
        ELSE IF BitAnd(b1, MASK_3) = RUN_16
        THEN IF ~fits(1) THEN fail
             ELSE [st EXCEPT !.run = BitOr(Shl(BitAnd(b1, 31), 8), at(1)) + 32,
                             !.pos = st.pos + 1]
        ELSE IF BitAnd(b1, MASK_2) = DIFF_8
        THEN [st EXCEPT !.pixel =
                 modify_b(modify_g(modify_r(st.pixel, BitAnd(Shr(b1, 4), 3) - 2),
                                   BitAnd(Shr(b1, 2), 3) - 2),
                          BitAnd(b1, 3) - 2)]
        ELSE IF BitAnd(b1, MASK_3) = DIFF_16
        THEN IF ~fits(1) THEN fail
             ELSE [st EXCEPT !.pixel =
                      modify_b(modify_g(modify_r(st.pixel, BitAnd(b1, 31) - 16),
                                        Shr(at(1), 4) - 8),
                               BitAnd(at(1), 15) - 8),
                             !.pos = st.pos + 1]
        ELSE IF BitAnd(b1, MASK_4) = DIFF_24
        THEN IF ~fits(2) THEN fail
             ELSE [st EXCEPT !.pixel =
                      modify_a(
                        modify_b(
                          modify_g(
                            modify_r(st.pixel,
                                     BitOr(AsU8(Shl(BitAnd(b1, 15), 1)), Shr(at(1), 7)) - 16),
                            Shr(BitAnd(at(1), 124), 2) - 16),
                          BitOr(AsU8(Shl(BitAnd(at(1), 3), 3)), Shr(BitAnd(at(2), 224), 5)) - 16),
                        BitAnd(at(2), 31) - 16),
                             !.pos = st.pos + 2]
        ELSE IF BitAnd(b1, MASK_4) = COLOR
        THEN LET hr == IF BitAnd(b1, 8) > 0 THEN 1 ELSE 0
                 hg == IF BitAnd(b1, 4) > 0 THEN 1 ELSE 0
                 hb == IF BitAnd(b1, 2) > 0 THEN 1 ELSE 0
                 ha == IF BitAnd(b1, 1) > 0 THEN 1 ELSE 0
             IN  IF ~fits(hr + hg + hb + ha) THEN fail
                 ELSE [st EXCEPT
                         !.pixel = [r |-> IF hr = 1 THEN at(1) ELSE st.pixel.r,
                                    g |-> IF hg = 1 THEN at(hr + 1) ELSE st.pixel.g,
                                    b |-> IF hb = 1 THEN at(hr + hg + 1) ELSE st.pixel.b,
                                    a |-> IF ha = 1 THEN at(hr + hg + hb + 1) ELSE st.pixel.a],
                         !.pos = st.pos + hr + hg + hb + ha]
        ELSE st

\* Lines 47-108: one iteration of the loop on st = [err, cache, run, pixel,
\* pos, read_hi], up to the write of the chunk.  read_hi is the highest index of
\* src the decoder has read.
DecodeChunk(st, buf, padding_pos) ==
    IF st.pos >= Len(buf)
    THEN [st EXCEPT !.err = "InputSize"]
    ELSE IF st.run > 0
    THEN [st EXCEPT !.run = st.run - 1]
    ELSE IF st.pos < padding_pos
    THEN LET op == DecodeOp([st EXCEPT !.pos = st.pos + 1], buf, buf[st.pos + 1])
         IN  IF op.err # ""
             THEN [op EXCEPT !.read_hi = Len(buf) - 1]
             ELSE [op EXCEPT !.cache = [op.cache EXCEPT ![cache_index(op.pixel)] = op.pixel],
                             !.read_hi = IF op.pos - 1 > st.read_hi THEN op.pos - 1
                                         ELSE st.read_hi]
    ELSE st

\* Lines 46-108 repeated: the pixels of the first n chunks of a destination,
\* up to the iteration that fails.
RECURSIVE DecodePixels(_, _, _, _)
DecodePixels(st, buf, padding_pos, n) ==
    IF n = 0 THEN <<>>
    ELSE LET next == DecodeChunk(st, buf, padding_pos)
         IN  IF next.err # "" THEN <<>>
             ELSE <<next.pixel>> \o DecodePixels(next, buf, padding_pos, n - 1)

\* Lines 34-38: the decoder's state before the first iteration.
DecodeStart ==
    [err |-> "", cache |-> NewCache, run |-> 0, pixel |-> PixelNew(0, 0, 0, 255),
     pos |-> 0, read_hi |-> -1]

\* A write-out that stores green before red.
ChunkBytesSwapped(p, c) ==
    IF ChannelsLen(c) = 4 THEN <<p.g, p.r, p.b, p.a>> ELSE <<p.g, p.r, p.b>>

\* Lines 110-116: the bytes written to a chunk of dest.
ChunkBytes(p, c) ==
    IF ChannelsLen(c) = 4 THEN <<p.r, p.g, p.b, p.a>> ELSE <<p.r, p.g, p.b>>

\* channels.unwrap_or(header.channels)
UnwrapOr(override, c) == IF override = "None" THEN c ELSE override

DecFail(api, override, dest0, header, result) ==
    /\ pc' = "dec_done"
    /\ dec_api' = api /\ dec_override' = override
    /\ dec_header' = header
    /\ dec_dest' = dest0 /\ dec_dest0' = dest0
    /\ dec_result' = result
    /\ UNCHANGED <<dec_channels, dec_cache, dec_run, pixel, pos, chunk_index, read_hi>>

\* qoi_decode, lines 22-39: the state before the first iteration of the loop.
\* `o` is the outcome of header.raw_image_size(channels).
DecodeEnter(api, override, dest0, header, o) ==
    IF o.panic
    THEN DecFail(api, override, dest0, header, Panic)
    ELSE IF LenLess(Len(dest0), o.size)
    THEN DecFail(api, override, dest0, header, Err("OutputTooSmall"))
    ELSE IF Len(stream) < HEADER_SIZE + PADDING
    THEN DecFail(api, override, dest0, header, Err("InputSize"))
    ELSE /\ pc' = "dec_loop"
         /\ dec_api' = api /\ dec_override' = override
         /\ dec_header' = header
         /\ dec_channels' = UnwrapOr(override, header.channels)
         /\ dec_dest' = dest0 /\ dec_dest0' = dest0
         /\ dec_cache' = NewCache
         /\ dec_run' = 0
         /\ pixel' = PixelNew(0, 0, 0, 255)
         /\ pos' = 0 /\ chunk_index' = 0 /\ read_hi' = -1
         /\ dec_result' = NoResult

\* The lengths of the destinations a caller passes for an image of the
\* header's size: one byte short, exact, and with room for one more pixel.
DestLens(header, c) ==
    LET p == RawProducts[<<<<header.width, header.height>>, c>>]
    IN  IF IsSmall(p)
        THEN {n \in {ToInt(p) - 1, ToInt(p), ToInt(p) + ChannelsLen(c)} : n >= 0}
        ELSE {0, ChannelsLen(c)}

Overrides == {"None"} \cup Channels

\* A call of qoi_decode on the stream.
qoi_decode ==
    /\ pc = "ready"
    /\ \E override \in Overrides, parsed \in {new_from_slice(stream)} :
         IF parsed.err # ""
         THEN /\ DecFail("qoi_decode", override, Buffer(0), NoHeader, Err(parsed.err))
              /\ UNCHANGED overflow_checks
         ELSE \E c \in {UnwrapOr(override, parsed.header.channels)} :
              \E o \in SizeOutcomes(parsed.header, c), n \in DestLens(parsed.header, c) :
                 /\ DecodeEnter("qoi_decode", override, Buffer(n), parsed.header, o)
                 /\ overflow_checks' = Build(o)
    /\ UNCHANGED <<enc_vars, stream, call>>

\* qoi_decode_to_vec, lines 123-132: the destination is allocated from the
\* header, then qoi_decode runs on it.
qoi_decode_to_vec ==
    /\ pc = "ready"
    /\ \E override \in Overrides, parsed \in {new_from_slice(stream)} :
         IF parsed.err # ""
         THEN /\ DecFail("qoi_decode_to_vec", override, <<>>, NoHeader, Err(parsed.err))
              /\ UNCHANGED overflow_checks
         ELSE \E c \in {UnwrapOr(override, parsed.header.channels)} :
              \E o \in SizeOutcomes(parsed.header, c) :
                 /\ overflow_checks' = Build(o)
                 /\ IF o.panic
                    THEN DecFail("qoi_decode_to_vec", override, <<>>, parsed.header, Panic)
                    ELSE IF DLess(FromInt(MAX_SIZE), o.size)
                    THEN DecFail("qoi_decode_to_vec", override, <<>>, parsed.header,
                                 Err("TooBig"))
                    ELSE DecodeEnter("qoi_decode_to_vec", override, Zeros(ToInt(o.size)),
                                     parsed.header, o)
    /\ UNCHANGED <<enc_vars, stream, call>>

\* load_qoi_header, lines 136-138
load_qoi_header ==
    /\ pc = "ready"
    /\ \E parsed \in {new_from_slice(stream)} :
         IF parsed.err # ""
         THEN DecFail("load_qoi_header", "None", <<>>, NoHeader, Err(parsed.err))
         ELSE DecFail("load_qoi_header", "None", <<>>, parsed.header, Ok(0))
    /\ UNCHANGED <<overflow_checks, enc_vars, stream, call>>

\* The number of chunks of chunks_exact_mut(channels.len()).
DestChunks == Len(dec_dest) \div ChannelsLen(dec_channels)

\* One iteration of the loop of qoi_decode, lines 46-117.
DecodeLoop ==
    /\ pc = "dec_loop"
    /\ chunk_index < DestChunks
    /\ \E st \in {DecodeChunk([err |-> "", cache |-> dec_cache, run |-> dec_run,
                               pixel |-> pixel, pos |-> pos, read_hi |-> read_hi],
                              SubSeq(stream, HEADER_SIZE + 1, Len(stream)),
                              Len(stream) - PADDING)} :
         IF st.err # ""
         THEN /\ pc' = "dec_done"
              /\ dec_result' = Err(st.err)
              /\ read_hi' = st.read_hi
              /\ UNCHANGED <<dec_dest, dec_cache, dec_run, pixel, pos, chunk_index>>
         ELSE /\ dec_cache' = st.cache
              /\ dec_run' = st.run
              /\ pixel' = st.pixel
              /\ pos' = st.pos
              /\ read_hi' = st.read_hi
              /\ dec_dest' = WriteAt(dec_dest, chunk_index * ChannelsLen(dec_channels),
                                     ChunkBytes(st.pixel, dec_channels))
              /\ chunk_index' = chunk_index + 1
              /\ UNCHANGED <<pc, dec_result>>
    /\ UNCHANGED <<dec_api, dec_override, dec_header, dec_channels, dec_dest0>>
    /\ UNCHANGED <<overflow_checks, enc_vars, stream, call>>

\* qoi_decode, line 119: the loop has run over every chunk of dest.
DecodeReturn ==
    /\ pc = "dec_loop"
    /\ chunk_index = DestChunks
    /\ pc' = "dec_done"
    /\ dec_result' = Ok(IF dec_api = "qoi_decode_to_vec" THEN Len(dec_dest) ELSE 0)
    /\ UNCHANGED <<dec_api, dec_override, dec_header, dec_channels, dec_dest, dec_dest0,
                   dec_cache, dec_run, pixel, pos, chunk_index, read_hi>>
    /\ UNCHANGED <<overflow_checks, enc_vars, stream, call>>

(***************************************************************************)
(* Spec: a raw image is encoded and the bytes produced are decoded.        *)
(***************************************************************************)
Next ==
    \/ qoi_encode
    \/ qoi_encode_to_vec
    \/ EncodeLoop
    \/ EncodeFooter
    \/ qoi_decode
    \/ qoi_decode_to_vec
    \/ load_qoi_header
    \/ DecodeLoop
    \/ DecodeReturn

Spec == Init /\ [][Next]_vars

(***************************************************************************)
(* SpecDecode: the decoder is given arbitrary bytes.                       *)
(***************************************************************************)
\* Dimensions of the headers of the streams: an image of one pixel, of
\* MaxWidth pixels, of no pixel, and the two whose size does not fit 64 bits.
StreamDims ==
    {<<U32(1), U32(1)>>, <<U32(MaxWidth), U32(1)>>, <<U32(0), U32(0)>>} \cup BigDims

Headers ==
    {to_array(QoiHeaderNew(d[1], d[2], c, 0)) : d \in StreamDims, c \in Channels}

\* Opcode bytes: nothing, an index, a short run, a long run, a small, a
\* medium and a large delta, literal colours, and opcodes cut short.
Bodies ==
    {<<>>, <<INDEX + 5>>, <<RUN_8 + 1>>, <<RUN_16, 0>>, <<RUN_16>>,
     <<DIFF_8 + 63>>, <<DIFF_16 + 31, 255>>, <<DIFF_24 + 15, 255, 255>>,
     <<DIFF_24 + 1, 2>>, <<COLOR + 14, 10, 20, 30>>, <<COLOR + 15, 1, 2, 3, 4>>,
     <<COLOR + 12, 10>>}

Footers == {<<0, 0, 0, 0>>, <<>>, <<0, 0, 0, 1>>}

\* 'boif', the tag of the test header_magic
BAD_MAGIC == <<98, 111, 105, 102>>

\* Inputs the header parser rejects or that differ from the encoder's headers:
\* cut short, with a wrong tag, with a wrong channel byte.
OddHeaders ==
    LET h == to_array(QoiHeaderNew(U32(1), U32(1), "Three", 1))
    IN  {SubSeq(h, 1, n) : n \in {0, 3, 4, 13}}
        \cup {SubSeq(BAD_MAGIC \o SubSeq(h, 5, 14) \o Zeros(18), 1, n) : n \in {4, 13, 14, 18, 32}}
        \cup {[h EXCEPT ![13] = b] \o Zeros(PADDING) : b \in {0, 2, 5, 255}}
        \cup {[h EXCEPT ![1] = 0], h \o <<COLOR + 14, 10, 20, 30>> \o Zeros(PADDING)}

Streams == {h \o b \o f : h \in Headers, b \in Bodies, f \in Footers} \cup OddHeaders

InitDecode ==
    /\ pc = "ready"
    /\ overflow_checks = "any"
    /\ InitEnc
    /\ stream \in Streams
    /\ InitDec
    /\ call = NoCall

NextDecode ==
    \/ qoi_decode
    \/ qoi_decode_to_vec
    \/ load_qoi_header
    \/ DecodeLoop
    \/ DecodeReturn

SpecDecode == InitDecode /\ [][NextDecode]_vars

(***************************************************************************)
(* Properties.                                                             *)
(***************************************************************************)
\* width * height * channels of the encoder call, as a mathematical integer.
EncImageSize == RawProducts[<<<<width, height>>, channels>>]

\* The source holds exactly / at least / less than width * height * channels bytes.
SourceIsExact == ~Overflows(EncImageSize) /\ Low(EncImageSize) = FromInt(Len(src))
SourceIsShort == Overflows(EncImageSize) \/ DLess(FromInt(Len(src)), Low(EncImageSize))
SourceCovers == ~SourceIsShort

Encoded == pc \in {"ready", "dec_loop", "dec_done"}

\* The stream starts with a header the parser accepts.
ValidHeader ==
    /\ Len(stream) >= HEADER_SIZE
    /\ SubSeq(stream, 1, 4) = MAGIC
    /\ stream[13] \in {3, 4}

\* width * height * output channels of the decoder call, as a mathematical integer.
DecImageSize ==
    RawProducts[<<<<dec_header.width, dec_header.height>>,
                  UnwrapOr(dec_override, dec_header.channels)>>]

DestIsShort == Overflows(DecImageSize) \/ DLess(FromInt(Len(dec_dest0)), Low(DecImageSize))
DestIsExact == ~Overflows(DecImageSize) /\ Low(DecImageSize) = FromInt(Len(dec_dest0))

\* C1: for width, height >= 1 and a source of exactly w*h*c bytes, qoi_encode
\* into a destination that holds the result succeeds, and qoi_decode of the
\* bytes produced, with no channel override and a destination of exactly
\* w*h*c bytes, returns Ok and yields the source byte for byte.
C1_RoundTrip ==
    (enc_api = "qoi_encode" /\ ~IsZero(width) /\ ~IsZero(height) /\ SourceIsExact) =>
        /\ pc # "enc_failed"
        /\ (pc = "dec_done" /\ dec_api = "qoi_decode" /\ dec_override = "None"
              /\ Len(dec_dest0) = Len(src))
           => (dec_result.kind = "Ok" /\ dec_dest = src)

\* A four-channel image of a run, a cache hit and a literal colour has gone
\* through the round trip.
C1_Witness ==
    /\ pc = "dec_done" /\ enc_api = "qoi_encode" /\ dec_api = "qoi_decode"
    /\ dec_override = "None"
    /\ src = <<0, 0, 0, 255, 0, 0, 0, 0, 10, 20, 30, 255>>
    /\ dec_result.kind = "Ok" /\ dec_dest = src

\* C2: qoi_encode_to_vec never writes out of the bounds of the buffer of
\* w*h*c + 14 + 4 bytes it allocates: for a source of at least w*h*c bytes the
\* call returns a value and does not fault.
C2_ToVecInBounds ==
    (enc_api = "qoi_encode_to_vec" /\ SourceCovers) => enc_result.kind # "Panic"

\* C3: an image of no pixel (width = 0 or height = 0) with an empty source
\* encodes to the header followed by the four zero bytes of the footer, and
\* decoding those 18 bytes returns Ok with an empty buffer.
C3_ZeroAreaRoundTrip ==
    (enc_api # "none" /\ (IsZero(width) \/ IsZero(height)) /\ src = <<>>) =>
        /\ pc # "enc_failed"
        /\ Encoded =>
             /\ enc_result = Ok(HEADER_SIZE + PADDING)
             /\ stream = to_array(QoiHeaderNew(width, height, channels, colour_space))
                            \o Zeros(PADDING)
        /\ (pc = "dec_done" /\ dec_api \in {"qoi_decode", "qoi_decode_to_vec"}
              /\ dec_override = "None" /\ DestIsExact)
           => (dec_result.kind = "Ok" /\ dec_dest = <<>>)

\* C4: encoding the 1x1 three-channel image of the pixel (10,20,30) returns Ok
\* with the 22 bytes header, literal colour opcode with the r, g and b flags
\* and the values 10, 20, 30, four zero bytes; decoding them gives 10, 20, 30.
C4_OnePixel ==
    (enc_api # "none" /\ width = U32(1) /\ height = U32(1) /\ channels = "Three"
       /\ src = <<10, 20, 30>>) =>
        /\ pc # "enc_failed"
        /\ Encoded =>
             /\ enc_result = Ok(22)
             /\ stream = to_array(QoiHeaderNew(width, height, channels, colour_space))
                            \o <<COLOR + 8 + 4 + 2, 10, 20, 30>> \o <<0, 0, 0, 0>>
        /\ (pc = "dec_done" /\ dec_api \in {"qoi_decode", "qoi_decode_to_vec"}
              /\ dec_override = "None" /\ DestIsExact)
           => (dec_result.kind = "Ok" /\ dec_dest = <<10, 20, 30>>)

\* C5: for an encoder-produced stream and a destination of at least
\* width * height * output channels bytes, qoi_decode returns Ok and leaves
\* every destination byte beyond the image as the caller passed it.
C5_FillsExactly ==
    (pc = "dec_done" /\ dec_api = "qoi_decode" /\ ValidHeader /\ ~DestIsShort) =>
        /\ dec_result.kind = "Ok"
        /\ \A i \in 1..Len(dec_dest) :
              i > ToInt(Low(DecImageSize)) => dec_dest[i] = dec_dest0[i]

\* C6: on any input and any channel override qoi_decode_to_vec does not fault:
\* every read of the input is below its length and no size computation
\* overflows.
C6_DecodeToVecSafe ==
    dec_api = "qoi_decode_to_vec" =>
        /\ dec_result.kind # "Panic"
        /\ overflow_checks = "any"
        /\ read_hi >= 0 => HEADER_SIZE + read_hi < Len(stream)

C8_WrongMagic ==
    (dec_api # "none" /\ Len(stream) >= 4 /\ SubSeq(stream, 1, 4) # MAGIC) =>
        dec_result = Err("IncorrectHeaderMagic")

\* C8, amended: every input of at least 14 bytes whose first 4 bytes are not
\* the tag yields IncorrectHeaderMagic, whatever the remaining bytes are.
C8_WrongMagicFullHeader ==
    (dec_api # "none" /\ Len(stream) >= HEADER_SIZE /\ SubSeq(stream, 1, 4) # MAGIC) =>
        dec_result = Err("IncorrectHeaderMagic")

\* qoi_decode has rejected the 32 bytes of the test header_magic.
C8_Witness ==
    /\ dec_api = "qoi_decode" /\ Len(stream) = 32 /\ SubSeq(stream, 1, 4) = BAD_MAGIC
    /\ dec_result = Err("IncorrectHeaderMagic")

\* C9: for an input with a valid header, of any width and height, and a
\* destination shorter than width * height * output channels, qoi_decode
\* returns OutputTooSmall.
C9_OutputTooSmall ==
    (dec_api = "qoi_decode" /\ ValidHeader /\ DestIsShort) =>
        dec_result = Err("OutputTooSmall")

\* C10: for a source shorter than w*h*c qoi_encode returns InputSize, before it
\* reads a pixel of the source.
C10_ShortSource ==
    (enc_api = "qoi_encode" /\ SourceIsShort) =>
        (pc = "enc_failed" /\ enc_result = Err("InputSize") /\ index = 0)

\* The opcode bytes of the stream: what lies between the header and the last
\* four bytes.
OpcodeData == SubSeq(stream, HEADER_SIZE + 1, Len(stream) - PADDING)

\* The number of bytes of the opcode with tag b1, and the number of pixels it
\* stands for (b2 is the byte after the tag, for a long run).
OpcodeLen(b1) ==
    IF b1 < RUN_8 THEN 1
    ELSE IF b1 < RUN_16 THEN 1
    ELSE IF b1 < DIFF_8 THEN 2
    ELSE IF b1 < DIFF_16 THEN 1
    ELSE IF b1 < DIFF_24 THEN 2
    ELSE IF b1 < COLOR THEN 3
    ELSE 1 + Bit(b1, 3) + Bit(b1, 2) + Bit(b1, 1) + Bit(b1, 0)
OpcodePixelCount(b1, b2) ==
    IF b1 >= RUN_8 /\ b1 < RUN_16 THEN (b1 - RUN_8) + 1
    ELSE IF b1 >= RUN_16 /\ b1 < DIFF_8 THEN (b1 - RUN_16) * 256 + b2 + 33
    ELSE 1

\* The number of pixels the complete opcodes of `data` stand for, from byte i.
RECURSIVE PixelsOf(_, _)
PixelsOf(data, i) ==
    IF i > Len(data) \/ i + OpcodeLen(data[i]) - 1 > Len(data) THEN 0
    ELSE OpcodePixelCount(data[i], IF i < Len(data) THEN data[i + 1] ELSE 0)
         + PixelsOf(data, i + OpcodeLen(data[i]))

\* width * height of the header the decoder parsed, for an image whose
\* destination the caller could provide.
DecPixels == ToInt(Low(DecImageSize)) \div ChannelsLen(UnwrapOr(dec_override, dec_header.channels))

\* C11: for an input with a valid header and a destination of at least
\* raw_image_size bytes, when the input has fewer than 14 + 4 bytes or its
\* opcode data stands for fewer than width * height pixels, qoi_decode returns
\* InputSize.
C11_TruncatedStream ==
    (pc = "dec_done" /\ dec_api = "qoi_decode" /\ ValidHeader /\ ~DestIsShort
       /\ (Len(stream) < HEADER_SIZE + PADDING \/ PixelsOf(OpcodeData, 1) < DecPixels))
    => dec_result = Err("InputSize")

\* A size, as the mathematical product of the dimensions, is above the ceiling
\* once `extra` bytes are added to it.
AboveCeiling(product, extra) ==
    Overflows(product) \/ DLess(FromInt(MAX_SIZE - extra), Low(product))

\* C12: qoi_encode_to_vec returns TooBig whenever width*height*channels + 14 + 4
\* exceeds the ceiling, and qoi_decode_to_vec returns TooBig whenever the raw
\* image size of the header exceeds it; both before a buffer is allocated and
\* before a pixel or an opcode is processed.
C12_TooBig ==
    /\ (enc_api = "qoi_encode_to_vec" /\ AboveCeiling(EncImageSize, HEADER_SIZE + PADDING))
       => (enc_result = Err("TooBig") /\ enc_dest = <<>> /\ index = 0 /\ dest_pos = 0)
    /\ (dec_api = "qoi_decode_to_vec" /\ ValidHeader /\ AboveCeiling(DecImageSize, 0))
       => (dec_result = Err("TooBig") /\ dec_dest = <<>> /\ chunk_index = 0 /\ pos = 0)

\* The 14 bytes of a header as the format lays them out: the tag, the width
\* and the height with the most significant byte first, the channel count, the
\* colour space.
WireHeader(w, h, c, cs) ==
    <<113, 111, 105, 102, w[4], w[3], w[2], w[1], h[4], h[3], h[2], h[1],
      IF c = "Three" THEN 3 ELSE 4, cs>>

\* `data` is a sequence of whole opcodes from byte i on.
RECURSIVE WholeOpcodes(_, _)
WholeOpcodes(data, i) ==
    IF i = Len(data) + 1 THEN TRUE
    ELSE IF i + OpcodeLen(data[i]) - 1 > Len(data) THEN FALSE
    ELSE WholeOpcodes(data, i + OpcodeLen(data[i]))

\* C13: a successful encode produces the header for the given width, height,
\* channels and colour space, then whole opcodes, then four zero bytes, and
\* returns the number of bytes written: 14 + opcode bytes + 4.  Nothing is
\* written past the returned count.
C13_EncodeLayout ==
    (Encoded /\ enc_result.kind = "Ok") =>
        /\ Len(stream) >= HEADER_SIZE + PADDING
        /\ SubSeq(stream, 1, HEADER_SIZE) = WireHeader(width, height, channels, colour_space)
        /\ SubSeq(stream, Len(stream) - 3, Len(stream)) = <<0, 0, 0, 0>>
        /\ WholeOpcodes(OpcodeData, 1)
        /\ enc_result.len = HEADER_SIZE + Len(OpcodeData) + PADDING
        /\ SubSeq(enc_dest, 1, enc_result.len) = stream
        /\ \A i \in 1..Len(enc_dest) : i > enc_result.len => enc_dest[i] = FILL

\* qoi_encode has returned the 21 bytes of a two-pixel image: a small delta
\* of one byte and a medium delta of two bytes between header and footer.
C13_Witness ==
    /\ pc = "ready" /\ enc_api = "qoi_encode" /\ enc_result = Ok(21)
    /\ src = <<1, 1, 0, 10, 5, 0>> /\ colour_space = 1
    /\ Len(enc_dest) > 21

\* The stream ends with the four zero bytes of the footer.
HasFooter ==
    /\ Len(stream) >= HEADER_SIZE + PADDING
    /\ SubSeq(stream, Len(stream) - 3, Len(stream)) = <<0, 0, 0, 0>>

\* C14: an input with a valid header (of an image whose size fits the machine
\* integer) whose last four bytes are not the all-zero footer is rejected by
\* qoi_decode with an error: the call never returns Ok.
C14_FooterRequired ==
    (pc = "dec_done" /\ dec_api = "qoi_decode" /\ ValidHeader
       /\ ~Overflows(DecImageSize) /\ ~HasFooter)
    => dec_result.kind = "Err"

\* The pixels a decode of the stream gives for the chunks written so far.
PixelsSoFar ==
    DecodePixels(DecodeStart, SubSeq(stream, HEADER_SIZE + 1, Len(stream)),
                 Len(stream) - PADDING, chunk_index)

\* C15: when the header says 3 channels and the output has 4, every output
\* pixel of the image has alpha 255 whatever the opcodes before the footer
\* are; when the output has 3 channels only r, g, b are written, equal to
\* those of the decode of the same stream to 4 channels.
C15_ChannelOverride ==
    (dec_api = "qoi_decode" /\ pc \in {"dec_loop", "dec_done"} /\ ValidHeader
       /\ ~DestIsShort) =>
        /\ (dec_header.channels = "Three" /\ dec_channels = "Four"
              /\ HasFooter /\ read_hi < Len(OpcodeData))
           => \A k \in 1..chunk_index : k <= DecPixels => dec_dest[4 * k] = 255
        /\ (dec_channels = "Three" /\ Len(PixelsSoFar) = chunk_index)
           => \A k \in 1..chunk_index :
                 SubSeq(dec_dest, 3 * k - 2, 3 * k)
                    = <<PixelsSoFar[k].r, PixelsSoFar[k].g, PixelsSoFar[k].b>>

\* qoi_encode, lines 52-189 repeated: the opcode bytes of chunks i .. n - 1 of
\* source, from the encoder state st = [cache, previous_pixel, run].
RECURSIVE EncodeChunks(_, _, _, _, _)
EncodeChunks(st, source, c, i, n) ==
    IF i >= n THEN <<>>
    ELSE LET clen == ChannelsLen(c)
             r == EncodePixel(st, ChunkPixel(SubSeq(source, i * clen + 1, i * clen + clen), c),
                              i = n - 1)
         IN  r.out \o EncodeChunks([cache |-> r.cache, previous_pixel |-> r.previous_pixel,
                                    run |-> r.run], source, c, i + 1, n)

\* qoi_encode, lines 34-195, for a source of n whole chunks and a destination
\* that holds the result: the header, the opcodes and the footer.
EncodeBytes(w, h, c, cs, source, n) ==
    to_array(QoiHeaderNew(w, h, c, cs))
        \o EncodeChunks([cache |-> NewCache, previous_pixel |-> PixelNew(0, 0, 0, 255),
                         run |-> 0], source, c, 0, n)
        \o Zeros(PADDING)

\* The stream was decoded with the channels and into a destination of the size
\* of the image it was encoded from.
DecodedSameShape ==
    /\ pc = "dec_done"
    /\ dec_api \in {"qoi_decode", "qoi_decode_to_vec"}
    /\ dec_result.kind = "Ok"
    /\ Encoded
    /\ dec_channels = channels
    /\ Len(dec_dest) = raw_size

\* C16: encoding the pixels decoded from a stream the encoder produced, with
\* the same width, height, channels and colour space, gives the bytes of that
\* stream: the same length and the same byte at every index.
C16_ReencodeCanonical ==
    DecodedSameShape =>
        LET again == EncodeBytes(width, height, channels, colour_space, dec_dest,
                                 raw_size \div ChannelsLen(channels))
        IN  /\ Len(again) = Len(stream)
            /\ \A i \in 1..Len(stream) : again[i] = stream[i]

\* An image of a delta, a run and a second delta has been decoded.
C16_Witness ==
    /\ DecodedSameShape
    /\ dec_dest = <<10, 5, 0, 10, 5, 0, 0, 0, 0>>
    /\ Len(stream) = HEADER_SIZE + 5 + PADDING

\* The value of four bytes read as a big-endian number equals the u32 of
\* digits d (least significant first).
IsBigEndianOf(bytes, d) ==
    bytes[1] = d[4] /\ bytes[2] = d[3] /\ bytes[3] = d[2] /\ bytes[4] = d[1]

\* The 14 bytes a are the wire format of header h.
IsWireFormat(a, h) ==
    /\ Len(a) = HEADER_SIZE
    /\ a[1] = 113 /\ a[2] = 111 /\ a[3] = 105 /\ a[4] = 102
    /\ IsBigEndianOf(SubSeq(a, 5, 8), h.width)
    /\ IsBigEndianOf(SubSeq(a, 9, 12), h.height)
    /\ a[13] = (IF h.channels = "Three" THEN 3 ELSE 4)
    /\ a[14] = h.colour_space

\* Colour-space bytes beyond the two the encoder calls pass.
OtherColourSpaces == {2, 128, 255}

\* C17: the 14 bytes the encoder writes are 'qoif', the width big-endian at
\* offset 4, the height big-endian at offset 8, the channel count at offset 12
\* and the colour space at offset 13; load_qoi_header on the encoder's output
\* returns the width, height, channels and colour space of the encoder call,
\* and the header writer and parser do so for every colour-space byte.
C17_HeaderWireFormat ==
    /\ pc \in {"enc_loop", "enc_footer", "ready", "dec_loop", "dec_done"} =>
          IsWireFormat(SubSeq(enc_dest, 1, HEADER_SIZE),
                       QoiHeaderNew(width, height, channels, colour_space))
    /\ (pc = "dec_done" /\ dec_api = "load_qoi_header") =>
          /\ dec_result.kind = "Ok"
          /\ dec_header.width = width /\ dec_header.height = height
          /\ dec_header.channels = channels
          /\ dec_header.colour_space = colour_space
    /\ enc_api # "none" =>
          \A cs \in ColourSpaces \cup OtherColourSpaces :
             LET h == QoiHeaderNew(width, height, channels, cs)
             IN  /\ IsWireFormat(to_array(h), h)
                 /\ new_from_slice(to_array(h)) = [err |-> "", header |-> h]

\* load_qoi_header has returned the header of an image three pixels wide.
C17_Witness ==
    /\ pc = "dec_done" /\ dec_api = "load_qoi_header" /\ dec_result.kind = "Ok"
    /\ dec_header = QoiHeaderNew(U32(3), U32(1), "Four", 1)
    /\ SubSeq(stream, 5, 14) = <<0, 0, 0, 3, 0, 0, 0, 1, 4, 1>>

\* C18: in every state of a decode, every byte read as an opcode tag or an
\* opcode payload lies below the footer boundary, stream length - 4 measured
\* on the whole stream: none of the last four bytes of the input is read.
C18_CursorBelowFooter ==
    (pc \in {"dec_loop", "dec_done"} /\ dec_api \in {"qoi_decode", "qoi_decode_to_vec"}
        /\ read_hi >= 0) =>
        HEADER_SIZE + read_hi < Len(stream) - PADDING

\* The cursor is at the footer boundary, no run is pending and the image has
\* pixels that are not written yet.
OpcodesExhausted ==
    /\ pc = "dec_loop" /\ dec_api = "qoi_decode"
    /\ HasFooter
    /\ dec_run = 0
    /\ pos = Len(OpcodeData)
    /\ chunk_index < DecPixels

\* C19: when the cursor has reached the footer boundary while pixels are still
\* expected and no run is pending, the next step of the decode does not fail,
\* consumes no input byte and writes the current pixel, unchanged, to the next
\* output position.
C19_ExhaustedStream ==
    [][OpcodesExhausted =>
          /\ pc' = "dec_loop" /\ dec_result' = NoResult
          /\ pos' = pos /\ read_hi' = read_hi
          /\ pixel' = pixel
          /\ chunk_index' = chunk_index + 1
          /\ dec_dest' = WriteAt(dec_dest, chunk_index * ChannelsLen(dec_channels),
                                 ChunkBytes(pixel, dec_channels))]_vars

\* qoi_encode, lines 52-189 repeated: the encoder state [cache, previous_pixel,
\* run] after the first k of the n chunks of source.
RECURSIVE EncodeState(_, _, _, _)
EncodeState(source, c, k, n) ==
    IF k = 0
    THEN [cache |-> NewCache, previous_pixel |-> PixelNew(0, 0, 0, 255), run |-> 0]
    ELSE LET clen == ChannelsLen(c)
             st == EncodeState(source, c, k - 1, n)
             r == EncodePixel(st, ChunkPixel(SubSeq(source, (k - 1) * clen + 1, k * clen), c),
                              k = n)
         IN  [cache |-> r.cache, previous_pixel |-> r.previous_pixel, run |-> r.run]

\* The decoder runs on the encoder's output with the image's channels and has
\* written chunk_index pixels of the image.
InLockstep ==
    /\ pc \in {"dec_loop", "dec_done"}
    /\ dec_api = "qoi_decode"
    /\ dec_channels = channels
    /\ chunk_index <= raw_size \div ChannelsLen(channels)

\* C20: after each pixel has been processed by the encoder and by the decoder
\* of the encoder's output, the two caches are equal in every slot and the
\* decoder's current pixel is the encoder's previous pixel.
C20_CachesInSync ==
    InLockstep =>
        LET enc == EncodeState(src, channels, chunk_index, raw_size \div ChannelsLen(channels))
        IN  /\ \A i \in DOMAIN dec_cache : dec_cache[i] = enc.cache[i]
            /\ pixel = enc.previous_pixel

(***************************************************************************)
(* SpecModify: the methods Pixel::modify_r, modify_g, modify_b, modify_a   *)
(* are called on their own.                                                *)
(***************************************************************************)
\* The changes tried are -MaxChange .. MaxChange - 1.
MaxChange == 16
Changes == (0 - MaxChange)..(MaxChange - 1)

\* Receivers: every value of a u8 occurs in every channel.
Receivers == {PixelNew(v, (v + 85) % 256, (v + 170) % 256, 255 - v) : v \in 0..255}

ModifyMethods == {"modify_r", "modify_g", "modify_b", "modify_a"}

InitModify ==
    /\ pc = "modify"
    /\ overflow_checks = "any"
    /\ InitEnc /\ stream = <<>> /\ InitDec
    /\ call \in [method : ModifyMethods, self : Receivers, change : Changes]

\* A call of call.method on call.self: `pixel` is self after the call.
ModifyCall ==
    /\ pc = "modify"
    /\ pc' = "modified"
    /\ pixel' = CASE call.method = "modify_r" -> modify_r(call.self, call.change)
                  [] call.method = "modify_g" -> modify_g(call.self, call.change)
                  [] call.method = "modify_b" -> modify_b(call.self, call.change)
                  [] call.method = "modify_a" -> modify_a(call.self, call.change)
    /\ UNCHANGED <<overflow_checks, enc_vars, stream, call>>
    /\ UNCHANGED <<dec_api, dec_override, dec_header, dec_channels, dec_dest, dec_dest0,
                   dec_cache, dec_run, pos, chunk_index, read_hi, dec_result>>

NextModify == ModifyCall

SpecModify == InitModify /\ [][NextModify]_vars

\* v + d modulo 256, for a signed d.
Mod256(x) == (x + 256) % 256

\* C28: modify_r, modify_g, modify_b and modify_a set their channel to
\* (v + d) mod 256 for every channel value v and every change d, and leave the
\* other three channels as they were; the result never saturates.
C28_ModifyWraps ==
    pc = "modified" =>
        LET p == call.self
            d == call.change
        IN  /\ pixel.r = (IF call.method = "modify_r" THEN Mod256(p.r + d) ELSE p.r)
            /\ pixel.g = (IF call.method = "modify_g" THEN Mod256(p.g + d) ELSE p.g)
            /\ pixel.b = (IF call.method = "modify_b" THEN Mod256(p.b + d) ELSE p.b)
            /\ pixel.a = (IF call.method = "modify_a" THEN Mod256(p.a + d) ELSE p.a)

\* modify_g(-13) on a pixel whose green is 10 has given 253.
C28_Witness ==
    /\ pc = "modified"
    /\ call.method = "modify_g" /\ call.self.g = 10 /\ call.change = -13
    /\ pixel.g = 253 /\ pixel.r = call.self.r

\* C27: raw_image_size(header, channels) is min(width * height * channels,
\* the largest usize) for every width and height: the multiplication saturates,
\* it neither wraps around nor faults, so that large dimensions never give a
\* small raw size.
C27_RawImageSizeSaturates ==
    (dec_api \in {"qoi_decode", "qoi_decode_to_vec"} /\ ValidHeader) =>
        /\ dec_result.kind # "Panic"
        /\ \A o \in raw_image_size(dec_header, UnwrapOr(dec_override, dec_header.channels)) :
              /\ ~o.panic
              /\ o.size = (IF Overflows(DecImageSize) THEN USIZE_MAX ELSE Low(DecImageSize))

(***************************************************************************)
(* SpecStep: images of one to three 4-channel pixels whose last pixel is   *)
(* at a chosen distance from the one before it are encoded by qoi_encode   *)
(* and the bytes produced are decoded by qoi_decode into a destination of  *)
(* the image's size.                                                       *)
(***************************************************************************)
\* The value of the four channels of the pixel the distances are taken from.
Anchor == 128
AnchorChunk == <<Anchor, Anchor, Anchor, Anchor>>

\* chunk + d, channel by channel.
Shifted(chunk, d) == [i \in 1..4 |-> chunk[i] + d[i]]

\* Distances <<dr, dg, db, da>>: every one of the medium range; every
\* combination of the ends of the large range and the values next to them;
\* every value of the large range in one channel with an end of the range in
\* the others; every combination of the ends of the small and medium ranges.
MediumDeltas == {<<dr, dg, db, 0>> : dr \in (-16)..15, dg \in (-8)..7, db \in (-8)..7}
EdgeDeltas == {<<dr, dg, db, da>> : dr \in {-17, -16, 0, 15, 16}, dg \in {-17, -16, 0, 15, 16},
                                     db \in {-17, -16, 0, 15, 16}, da \in {-17, -16, 0, 15, 16}}
LineDeltas ==
    UNION {{[[i \in 1..4 |-> e[i]] EXCEPT ![k] = v] : v \in (-16)..15,
                                                     e \in [1..4 -> {-16, 15}]} : k \in 1..4}
TierDeltas == {<<dr, dg, db, 0>> : dr \in {-9, -8, -3, -2, 1, 2, 7, 8},
                                    dg \in {-9, -8, -3, -2, 1, 2, 7, 8},
                                    db \in {-9, -8, -3, -2, 1, 2, 7, 8}}
FewDeltas == {<<dr, dg, db, da>> : dr \in {-17, 0, 1}, dg \in {-17, 0, 1},
                                    db \in {0, 64}, da \in {0, -3}}
StepDeltas == MediumDeltas \cup EdgeDeltas \cup LineDeltas \cup TierDeltas

\* Pixels at the start of an image: the initial previous pixel, the default
\* content of the cache, and pixels near them.
FirstChunks ==
    {<<0, 0, 0, 255>>, <<0, 0, 0, 0>>, <<1, 1, 0, 255>>, <<15, 7, 7, 255>>, <<16, 0, 0, 255>>,
     <<0, 0, 0, 250>>, <<0, 0, 0, 239>>, <<0, 0, 0, 238>>, <<0, 8, 0, 255>>, <<10, 10, 10, 255>>}

\* The images: the anchor then a pixel at each distance; the anchor twice (a
\* pending run) then a pixel at a distance; a pixel, the anchor, and the first
\* pixel again (found in the cache unless the anchor took its slot); images
\* that start at the encoder's initial state; rows of one pixel repeated.
StepImages ==
    {AnchorChunk \o Shifted(AnchorChunk, d) : d \in StepDeltas}
    \cup {AnchorChunk \o AnchorChunk \o Shifted(AnchorChunk, d) : d \in FewDeltas}
    \cup {Shifted(AnchorChunk, d) \o AnchorChunk \o Shifted(AnchorChunk, d) : d \in FewDeltas}
    \cup {c1 : c1 \in FirstChunks}
    \cup {c1 \o c2 : c1 \in FirstChunks, c2 \in FirstChunks}
    \cup {<<10, 10, 10, 255, 11, 8, 10, 255>>}
    \cup {Flatten([i \in 1..n |-> c1]) : n \in {32, 33, MaxRow - 1, MaxRow},
                                         c1 \in {<<0, 0, 0, 255>>, AnchorChunk}}

InitStep ==
    /\ pc = "image"
    /\ overflow_checks = "any"
    /\ enc_api = "none"
    /\ width = Zeros(U32_BYTES) /\ height = Zeros(U32_BYTES)
    /\ channels = "Four" /\ colour_space = 0
    /\ src \in StepImages
    /\ raw_size = 0
    /\ enc_dest = <<>> /\ dest_pos = 0
    /\ enc_cache = NewCache
    /\ previous_pixel = PixelNew(0, 0, 0, 255)
    /\ enc_run = 0 /\ index = 0
    /\ enc_result = NoResult
    /\ stream = <<>> /\ InitDec
    /\ call = NoCall

\* A call of qoi_encode on the image, a row of Len(src) / 4 pixels, with a
\* destination that holds the largest encoding.
EncodeImage ==
    /\ pc = "image"
    /\ \E w \in {U32(Len(src) \div 4)}, h \in {U32(1)} :
       \E o \in SizeOutcomes(QoiHeaderNew(w, h, "Four", 0), "Four") :
          /\ EncodeEnter("qoi_encode", w, h, "Four", 0, src,
                         Buffer(HEADER_SIZE + (Len(src) \div 4) * 5 + PADDING), o)
          /\ overflow_checks' = Build(o)
    /\ UNCHANGED <<stream, dec_vars, call>>

\* A call of qoi_decode(None, dest) on the bytes produced, with a destination
\* of the size of the image.
DecodeImage ==
    /\ pc = "ready"
    /\ \E parsed \in {new_from_slice(stream)} :
       \E o \in SizeOutcomes(parsed.header, parsed.header.channels) :
          /\ parsed.err = ""
          /\ DecodeEnter("qoi_decode", "None", Buffer(ToInt(o.size)), parsed.header, o)
          /\ overflow_checks' = Build(o)
    /\ UNCHANGED <<enc_vars, stream, call>>

NextStep ==
    \/ EncodeImage
    \/ EncodeLoop
    \/ EncodeFooter
    \/ DecodeImage
    \/ DecodeLoop
    \/ DecodeReturn

SpecStep == InitStep /\ [][NextStep]_vars

\* The round trip of the images of SpecStep.
StepRoundTrip ==
    (pc = "dec_done") => (dec_result.kind = "Ok" /\ dec_dest = src)

\* The pixel of chunk i (from 0) of the source.
SrcPixel(i) ==
    ChunkPixel(SubSeq(src, i * ChannelsLen(channels) + 1, (i + 1) * ChannelsLen(channels)),
               channels)

\* The number of bytes of the opcode of the run that is pending.
PendingRunLen == IF enc_run = 0 THEN 0 ELSE IF enc_run < 33 THEN 1 ELSE 2

\* The iteration at hand encodes a pixel that differs from the previous pixel
\* and completes without a fault; Miss: the pixel is not in its cache slot.
EncodesNewPixel ==
    /\ pc = "enc_loop" /\ pc' # "enc_failed"
    /\ SrcPixel(index) # previous_pixel
Miss == enc_cache[cache_index(SrcPixel(index))] # SrcPixel(index)

\* The bytes the iteration writes after the opcode of the pending run.
PixelOpcode == SubSeq(enc_dest', dest_pos + PendingRunLen + 1, dest_pos')

InRange(x, low, high) == low <= x /\ x <= high

\* The first applicable tier of a difference, in the order small, medium,
\* large, literal.
Tier(dr, dg, db, da) ==
    IF da = 0 /\ InRange(dr, -2, 1) /\ InRange(dg, -2, 1) /\ InRange(db, -2, 1) THEN "small"
    ELSE IF da = 0 /\ InRange(dr, -16, 15) /\ InRange(dg, -8, 7) /\ InRange(db, -8, 7)
    THEN "medium"
    ELSE IF InRange(dr, -16, 15) /\ InRange(dg, -16, 15) /\ InRange(db, -16, 15)
            /\ InRange(da, -16, 15)
    THEN "large"
    ELSE "literal"

\* The opcode kind a tag byte of 128 or more stands for, by its leading bits
\* 10, 110, 1110, 1111.
DeltaTagKind(b1) ==
    IF b1 < 128 THEN "other"
    ELSE IF b1 < 192 THEN "small"
    ELSE IF b1 < 224 THEN "medium"
    ELSE IF b1 < 240 THEN "large"
    ELSE "literal"

\* C21: for a pixel that differs from the previous pixel and is not in its
\* cache slot the encoder emits the first applicable opcode in the order small
\* delta (1 byte), medium delta (2 bytes), large delta (3 bytes), literal
\* colour, for the signed non-wrapping difference new - previous.
C21_DeltaTierPriority ==
    [][(EncodesNewPixel /\ Miss) =>
          LET p == SrcPixel(index)
              tier == Tier(p.r - previous_pixel.r, p.g - previous_pixel.g,
                           p.b - previous_pixel.b, p.a - previous_pixel.a)
              op == PixelOpcode
          IN  /\ Len(op) >= 1
              /\ DeltaTagKind(op[1]) = tier
              /\ tier = "small" => Len(op) = 1
              /\ tier = "medium" => Len(op) = 2
              /\ tier = "large" => Len(op) = 3]_vars

\* (10,10,10,255) -> (11,8,10,255) has been encoded as the one-byte small
\* delta; the first pixel took a large delta of three bytes.
C21_Witness ==
    /\ pc = "enc_footer"
    /\ src = <<10, 10, 10, 255, 11, 8, 10, 255>>
    /\ dest_pos = HEADER_SIZE + 4
    /\ enc_dest[HEADER_SIZE + 4] = 178

\* x xor y on 8 bits: the sum modulo 2 of each pair of binary digits.
RECURSIVE XorDigits(_, _, _)
XorDigits(x, y, bits) ==
    IF bits = 0 THEN 0
    ELSE ((x + y) % 2) + 2 * XorDigits(x \div 2, y \div 2, bits - 1)

\* (r xor g xor b xor a) mod 64
Slot(p) == XorDigits(XorDigits(XorDigits(p.r, p.g, 8), p.b, 8), p.a, 8) % 64

\* C22: for a pixel that differs from the previous pixel, if the cache slot
\* (r xor g xor b xor a) mod 64 holds that pixel the encoder emits one byte,
\* the index opcode naming the slot, and leaves the cache as it is; otherwise
\* it overwrites that slot, and no other, with the pixel.
C22_IndexPreference ==
    [][EncodesNewPixel =>
          LET p == SrcPixel(index)
          IN  IF enc_cache[Slot(p)] = p
              THEN /\ PixelOpcode = <<Slot(p)>>
                   /\ enc_cache' = enc_cache
              ELSE /\ enc_cache' = [enc_cache EXCEPT ![Slot(p)] = p]
                   /\ Len(PixelOpcode) >= 1 /\ PixelOpcode[1] >= DIFF_8]_vars

\* The third pixel of an image repeats the first and has been encoded as the
\* index opcode of slot 1.
C22_Witness ==
    /\ pc = "enc_footer"
    /\ src = <<129, 128, 128, 128, 128, 128, 128, 128, 129, 128, 128, 128>>
    /\ dest_pos = HEADER_SIZE + 7
    /\ enc_dest[HEADER_SIZE + 7] = 1
    /\ enc_cache[1] = PixelNew(129, 128, 128, 128)

\* encode.rs lines 61 and 79-148: the kind of the opcode the encoder writes
\* for a flushed run, and for a pixel that differs from the previous pixel.
RunKind(run) == IF run < 33 THEN "run_8" ELSE "run_16"
EncodeKind(p, prev, cache) ==
    LET dr == p.r - prev.r
        dg == p.g - prev.g
        db == p.b - prev.b
        da == p.a - prev.a
    IN  IF p = cache[cache_index(p)] THEN "index"
        ELSE IF can_diff_24(dr, dg, db, da)
        THEN IF can_diff_8(dr, dg, db, da) THEN "diff_8"
             ELSE IF can_diff_16(dr, dg, db, da) THEN "diff_16"
             ELSE "diff_24"
        ELSE "color"

\* encode.rs lines 52-189 repeated over chunks i .. n - 1 of src: the opcodes
\* written, in order, each with its kind, its bytes, the pixel it encodes and,
\* for a run, the length of the run.
RECURSIVE EncodeOpcodes(_, _, _)
EncodeOpcodes(st, i, n) ==
    IF i >= n THEN <<>>
    ELSE LET p == SrcPixel(i)
             same == p = st.previous_pixel
             run1 == IF same THEN st.run + 1 ELSE st.run
             flush == run1 > 0 /\ (~same \/ run1 = RUN_CAP \/ i = n - 1)
             r == EncodePixel(st, p, i = n - 1)
             runop == IF flush
                      THEN <<[kind |-> RunKind(run1), bytes |-> RunBytes(run1),
                              pixel |-> st.previous_pixel, run |-> run1]>>
                      ELSE <<>>
             pixop == IF same THEN <<>>
                      ELSE <<[kind |-> EncodeKind(p, st.previous_pixel, st.cache),
                              bytes |-> SubSeq(r.out, (IF flush THEN Len(RunBytes(run1)) ELSE 0) + 1,
                                               Len(r.out)),
                              pixel |-> p, run |-> 0]>>
         IN  runop \o pixop
                 \o EncodeOpcodes([cache |-> r.cache, previous_pixel |-> r.previous_pixel,
                                   run |-> r.run], i + 1, n)

\* qoi_encode, lines 37-39: the encoder's state before the first chunk.
EncodeStart == [cache |-> NewCache, previous_pixel |-> PixelNew(0, 0, 0, 255), run |-> 0]

\* decode.rs lines 57-105: the tests of the tag dispatch, in the order of the
\* code, and the branch the decoder takes for tag b1.
TagTest(kind, b1) ==
    CASE kind = "index"   -> BitAnd(b1, MASK_2) = INDEX
      [] kind = "run_8"   -> BitAnd(b1, MASK_3) = RUN_8
      [] kind = "run_16"  -> BitAnd(b1, MASK_3) = RUN_16
      [] kind = "diff_8"  -> BitAnd(b1, MASK_2) = DIFF_8
      [] kind = "diff_16" -> BitAnd(b1, MASK_3) = DIFF_16
      [] kind = "diff_24" -> BitAnd(b1, MASK_4) = DIFF_24
      [] kind = "color"   -> BitAnd(b1, MASK_4) = COLOR
OpcodeKinds == <<"index", "run_8", "run_16", "diff_8", "diff_16", "diff_24", "color">>
DecodeKind(b1) ==
    LET first == {k \in 1..Len(OpcodeKinds) :
                     /\ TagTest(OpcodeKinds[k], b1)
                     /\ \A j \in 1..(k - 1) : ~TagTest(OpcodeKinds[j], b1)}
    IN  IF first = {} THEN "none" ELSE OpcodeKinds[CHOOSE k \in first : TRUE]

\* The kinds whose test a tag byte passes, for every tag byte.
TagMatches ==
    [b1 \in 0..255 |-> {k \in 1..Len(OpcodeKinds) : TagTest(OpcodeKinds[k], b1)}] @@ <<>>

\* The opcode of the list that starts `off` bytes into the opcode bytes.
NoOpcode == [kind |-> "none", bytes |-> <<>>, pixel |-> PixelDefault, run |-> 0]
RECURSIVE OpcodeAt(_, _)
OpcodeAt(ops, off) ==
    IF ops = <<>> \/ off < 0 THEN NoOpcode
    ELSE IF off = 0 THEN Head(ops)
    ELSE OpcodeAt(Tail(ops), off - Len(Head(ops).bytes))

RECURSIVE OpcodeBytes(_)
OpcodeBytes(ops) == IF ops = <<>> THEN <<>> ELSE Head(ops).bytes \o OpcodeBytes(Tail(ops))

\* The opcodes the encoder wrote for the image.
ImageOpcodes == EncodeOpcodes(EncodeStart, 0, raw_size \div ChannelsLen(channels))

\* C23: the decoder classifies the first byte of every opcode the encoder
\* wrote as the kind the encoder wrote, consumes exactly the bytes of that
\* opcode and produces the pixel, or the run length, the encoder encoded;
\* every tag byte 0..255 passes the test of exactly one opcode kind.
C23_OpcodeInverse ==
    [][/\ (pc = "ready" /\ pc' = "dec_loop") =>
             /\ \A b1 \in 0..255 : Cardinality(TagMatches[b1]) = 1
             /\ OpcodeBytes(ImageOpcodes) = OpcodeData
       /\ (pc = "dec_loop" /\ dec_run = 0 /\ chunk_index < DestChunks) =>
             LET op == OpcodeAt(ImageOpcodes, pos)
                 b1 == stream[HEADER_SIZE + pos + 1]
             IN  /\ op.kind # "none"
                 /\ DecodeKind(b1) = op.kind
                 /\ pc' = "dec_loop"
                 /\ pos' = pos + Len(op.bytes)
                 /\ IF op.kind \in {"run_8", "run_16"}
                    THEN dec_run' + 1 = op.run /\ pixel' = pixel /\ pixel = op.pixel
                    ELSE dec_run' = 0 /\ pixel' = op.pixel]_vars

\* The long-run opcode of a row of 33 pixels equal to the initial pixel has
\* been read: two bytes consumed, 32 more copies to write.
C23_Witness ==
    /\ pc = "dec_loop" /\ chunk_index = 1
    /\ Len(src) = 33 * 4
    /\ SubSeq(stream, HEADER_SIZE + 1, HEADER_SIZE + 2) = <<RUN_16, 0>>
    /\ pos = 2 /\ dec_run = 32
    /\ pixel = PixelNew(0, 0, 0, 255)

(***************************************************************************)
(* SpecRun: qoi_encode and qoi_decode on rows made of one pixel repeated,  *)
(* followed or not by another pixel.  The row is kept as the pixel, the    *)
(* count and the pixel that follows; enc_dest is the part of dest written  *)
(* so far, and the decoder's destination, of the size of the image, is not *)
(* kept: the pixel written to each chunk is `pixel`.                       *)
(***************************************************************************)
RunCounts == {1, 2, 32, 33, 34, RUN_CAP - 1, RUN_CAP, RUN_CAP + MaxExtra}
RunPixels == {PixelNew(0, 0, 0, 255), PixelNew(Anchor, Anchor, Anchor, Anchor)}
NEXT_PIXEL == PixelNew(10, 20, 30, 255)

Rows ==
    [method : {"row"}, pixel : RunPixels, count : RunCounts, has_next : BOOLEAN,
     next : {NEXT_PIXEL}]

\* The number of pixels of the row, and its pixel i (from 0).
RowLen == call.count + (IF call.has_next THEN 1 ELSE 0)
RowPixel(i) == IF i < call.count THEN call.pixel ELSE call.next

InitRun ==
    /\ pc = "row"
    /\ overflow_checks = "any"
    /\ InitEnc /\ stream = <<>> /\ InitDec
    /\ call \in Rows

\* qoi_encode, lines 34-50, with channels = Four and a source of the size of
\* the row.
RowEncode ==
    /\ pc = "row"
    /\ \E w \in {U32(RowLen)}, h \in {U32(1)} :
       \E o \in SizeOutcomes(QoiHeaderNew(w, h, "Four", 0), "Four") :
          /\ ~o.panic /\ ~DLess(o.size, FromInt(4))
          /\ pc' = "row_enc"
          /\ enc_api' = "qoi_encode" /\ width' = w /\ height' = h
          /\ channels' = "Four" /\ colour_space' = 0
          /\ raw_size' = ToInt(o.size)
          /\ enc_dest' = to_array(QoiHeaderNew(w, h, "Four", 0))
          /\ dest_pos' = HEADER_SIZE
          /\ enc_cache' = NewCache
          /\ previous_pixel' = PixelNew(0, 0, 0, 255)
          /\ enc_run' = 0 /\ index' = 0
          /\ overflow_checks' = Build(o)
    /\ UNCHANGED <<src, enc_result, stream, dec_vars, call>>

\* One iteration of the loop of qoi_encode, lines 52-189.
RowEncodeLoop ==
    /\ pc = "row_enc"
    /\ \E last \in {index = raw_size \div 4 - 1} :
       \E r \in {EncodePixel([cache |-> enc_cache, previous_pixel |-> previous_pixel,
                              run |-> enc_run], RowPixel(index), last)} :
          /\ enc_dest' = enc_dest \o r.out
          /\ dest_pos' = dest_pos + Len(r.out)
          /\ enc_cache' = r.cache
          /\ previous_pixel' = r.previous_pixel
          /\ enc_run' = r.run
          /\ index' = index + 1
          /\ pc' = IF last THEN "row_footer" ELSE "row_enc"
    /\ UNCHANGED <<enc_api, width, height, channels, colour_space, src, raw_size, enc_result>>
    /\ UNCHANGED <<overflow_checks, stream, dec_vars, call>>

\* qoi_encode, lines 191-195
RowEncodeFooter ==
    /\ pc = "row_footer"
    /\ pc' = "row_ready"
    /\ enc_dest' = enc_dest \o Zeros(PADDING)
    /\ dest_pos' = dest_pos + PADDING
    /\ enc_result' = Ok(dest_pos + PADDING)
    /\ stream' = enc_dest \o Zeros(PADDING)
    /\ UNCHANGED <<enc_api, width, height, channels, colour_space, src, raw_size,
                   enc_cache, previous_pixel, enc_run, index>>
    /\ UNCHANGED <<overflow_checks, dec_vars, call>>

\* qoi_decode(None, dest), lines 22-39, with a destination of the size of the
\* image.
RowDecode ==
    /\ pc = "row_ready"
    /\ \E parsed \in {new_from_slice(stream)} :
       \E o \in SizeOutcomes(parsed.header, parsed.header.channels) :
          /\ parsed.err = "" /\ ~o.panic
          /\ Len(stream) >= HEADER_SIZE + PADDING
          /\ pc' = "row_dec"
          /\ dec_api' = "qoi_decode" /\ dec_override' = "None"
          /\ dec_header' = parsed.header
          /\ dec_channels' = parsed.header.channels
          /\ dec_cache' = NewCache
          /\ dec_run' = 0
          /\ pixel' = PixelNew(0, 0, 0, 255)
          /\ pos' = 0 /\ chunk_index' = 0 /\ read_hi' = -1
          /\ overflow_checks' = Build(o)
    /\ UNCHANGED <<dec_dest, dec_dest0, dec_result>>
    /\ UNCHANGED <<enc_vars, stream, call>>

\* One iteration of the loop of qoi_decode, lines 46-117: `pixel` is what the
\* chunk receives.
RowDecodeLoop ==
    /\ pc = "row_dec"
    /\ chunk_index < RowLen
    /\ \E st \in {DecodeChunk([err |-> "", cache |-> dec_cache, run |-> dec_run,
                               pixel |-> pixel, pos |-> pos, read_hi |-> read_hi],
                              SubSeq(stream, HEADER_SIZE + 1, Len(stream)),
                              Len(stream) - PADDING)} :
         IF st.err # ""
         THEN /\ pc' = "row_done"
              /\ dec_result' = Err(st.err)
              /\ read_hi' = st.read_hi
              /\ UNCHANGED <<dec_cache, dec_run, pixel, pos, chunk_index>>
         ELSE /\ dec_cache' = st.cache
              /\ dec_run' = st.run
              /\ pixel' = st.pixel
              /\ pos' = st.pos
              /\ read_hi' = st.read_hi
              /\ chunk_index' = chunk_index + 1
              /\ UNCHANGED <<pc, dec_result>>
    /\ UNCHANGED <<dec_api, dec_override, dec_header, dec_channels, dec_dest, dec_dest0>>
    /\ UNCHANGED <<overflow_checks, enc_vars, stream, call>>

\* qoi_decode, line 119
RowDecodeReturn ==
    /\ pc = "row_dec"
    /\ chunk_index = RowLen
    /\ pc' = "row_done"
    /\ dec_result' = Ok(0)
    /\ UNCHANGED <<dec_api, dec_override, dec_header, dec_channels, dec_dest, dec_dest0,
                   dec_cache, dec_run, pixel, pos, chunk_index, read_hi>>
    /\ UNCHANGED <<overflow_checks, enc_vars, stream, call>>

NextRun ==
    \/ RowEncode
    \/ RowEncodeLoop
    \/ RowEncodeFooter
    \/ RowDecode
    \/ RowDecodeLoop
    \/ RowDecodeReturn

SpecRun == InitRun /\ [][NextRun]_vars

\* The decode of a row succeeds.
RowDecodes == pc = "row_done" => dec_result = Ok(0)

\* The length of the run the iteration at hand flushes, 0 when it flushes none.
FlushedRun ==
    LET run1 == enc_run + (IF RowPixel(index) = previous_pixel THEN 1 ELSE 0)
    IN  IF pc = "row_enc" /\ run1 > 0 /\ enc_run' = 0 THEN run1 ELSE 0

\* bytes start with the opcode of a run of L pixels: for 1 <= L <= 32 the
\* short-run tag with L - 1 in its low 5 bits; for 33 <= L <= 8224 the long-run
\* tag with the high 5 bits of L - 33, then the low 8 bits of L - 33.
IsRunOpcode(bytes, L) ==
    IF L <= 32
    THEN Len(bytes) >= 1 /\ bytes[1] = 64 + (L - 1)
    ELSE /\ L <= 8224
         /\ Len(bytes) >= 2
         /\ bytes[1] = 96 + ((L - 33) \div 256)
         /\ bytes[2] = (L - 33) % 256
RunOpcodeLen(L) == IF L <= 32 THEN 1 ELSE 2

\* The decoder's loop body on a stream that holds only the opcode `bytes`,
\* from its initial state.
ReadAlone(bytes) ==
    DecodeChunk(DecodeStart, bytes \o Zeros(PADDING), HEADER_SIZE + Len(bytes))

\* C24: a flushed run of length L is written as one byte, the short-run tag
\* with L - 1 in its low 5 bits, for 1 <= L <= 32, and as two bytes, the
\* long-run tag with the high 5 bits of L - 33 then its low 8 bits, for
\* 33 <= L <= 8224; the decoder expands the opcode into exactly L copies of
\* the current pixel.
C24_RunOpcodeFormat ==
    [][/\ FlushedRun > 0 =>
             /\ IsRunOpcode(SubSeq(enc_dest', dest_pos + 1, dest_pos'), FlushedRun)
             /\ dest_pos' - dest_pos >= RunOpcodeLen(FlushedRun)
       /\ (pc = "row_enc" /\ enc_run > 0) =>
             /\ IsRunOpcode(RunBytes(enc_run), enc_run)
             /\ Len(RunBytes(enc_run)) = RunOpcodeLen(enc_run)
             /\ ReadAlone(RunBytes(enc_run)).run + 1 = enc_run
             /\ ReadAlone(RunBytes(enc_run)).pos = RunOpcodeLen(enc_run)
       /\ (pc = "row_dec" /\ chunk_index < RowLen) =>
             /\ pc' = "row_dec"
             /\ pixel' = RowPixel(chunk_index)
             /\ dec_run > 0 => (dec_run' = dec_run - 1 /\ pos' = pos /\ pixel' = pixel)
             /\ (dec_run = 0 /\ stream[HEADER_SIZE + pos + 1] \in 64..127) =>
                   /\ IsRunOpcode(SubSeq(stream, HEADER_SIZE + pos + 1, Len(stream)),
                                  dec_run' + 1)
                   /\ pos' = pos + RunOpcodeLen(dec_run' + 1)
                   /\ pixel' = pixel
       /\ (pc = "row_dec" /\ chunk_index = RowLen) => pos = Len(OpcodeData) /\ dec_run = 0]_vars

\* A run of 8224 initial pixels followed by another pixel has been written as
\* the long-run opcode 0x7F 0xFF and decoded into 8224 copies and the pixel.
C24_Witness ==
    /\ pc = "row_done" /\ dec_result = Ok(0)
    /\ call.count = RUN_CAP /\ call.pixel = PixelNew(0, 0, 0, 255) /\ call.has_next
    /\ SubSeq(stream, HEADER_SIZE + 1, HEADER_SIZE + 2) = <<127, 255>>
    /\ chunk_index = RUN_CAP + 1
    /\ pixel = NEXT_PIXEL

\* The row has been encoded; RunPart: the opcode bytes written before the
\* opcode of the pixel that follows the repeated one.
RowEncoded == pc = "row_ready"
RunPart ==
    IF call.has_next
    THEN SubSeq(OpcodeData, 1, Len(OpcodeData) - Len(DeltaBytes(call.next, call.pixel)))
    ELSE OpcodeData

INITIAL_PIXEL == PixelNew(0, 0, 0, 255)

\* The three rows of the boundary cases.
Is32ThenOther == call.count = 32 /\ call.has_next
Is33 == call.count = 33 /\ ~call.has_next
IsCapThenOther == call.count = RUN_CAP /\ call.has_next

\* C25: for every pixel P, 32 pixels P followed by a different pixel are
\* encoded as one short-run opcode, 33 pixels P as one long-run opcode, and
\* 8224 pixels P followed by a different pixel as one maximal long-run opcode.
C25_RunBoundary ==
    RowEncoded =>
        /\ Is32ThenOther => RunPart = <<64 + 31>>
        /\ Is33 => RunPart = <<96, 0>>
        /\ IsCapThenOther => RunPart = <<96 + 31, 255>>

\* C25 as the encoder has it: the statement holds when P is the pixel the
\* encoder starts from, (0,0,0,255); for any other P the first pixel takes an
\* opcode of its own (here a literal colour of five bytes) and the run opcode
\* stands for the pixels after it: 31, 32 (both short runs) and 8223.
C25_RunBoundaryFromInitial ==
    RowEncoded =>
        /\ call.pixel = INITIAL_PIXEL =>
              /\ Is32ThenOther => RunPart = <<64 + 31>>
              /\ Is33 => RunPart = <<96, 0>>
              /\ IsCapThenOther => RunPart = <<96 + 31, 255>>
        /\ call.pixel # INITIAL_PIXEL =>
              LET first == SubSeq(RunPart, 1, Len(DeltaBytes(call.pixel, INITIAL_PIXEL)))
                  rest == SubSeq(RunPart, Len(first) + 1, Len(RunPart))
              IN  /\ first = DeltaBytes(call.pixel, INITIAL_PIXEL)
                  /\ Is32ThenOther => rest = <<64 + 30>>
                  /\ Is33 => rest = <<64 + 31>>
                  /\ IsCapThenOther => rest = <<96 + 31, 254>>

\* 32 initial pixels followed by another pixel have been encoded: the run is
\* the one byte 0x5F.
C25_Witness ==
    /\ RowEncoded /\ Is32ThenOther /\ call.pixel = INITIAL_PIXEL
    /\ OpcodeData[1] = 95 /\ OpcodeData[2] >= COLOR

\* The largest value of a u16.
U16_MAX == 65535

\* C26: in every state of an encode the run counter is at most 8224 and within
\* its 16 bits; a pending run is flushed when it reaches 8224, when the pixel
\* changes, or at the last pixel, and only then; when the loop ends the run
\* counter is 0 and the pixels the opcodes written stand for are width * height.
C26_RunCounter ==
    [][/\ pc \in {"row_enc", "row_footer", "row_ready"} =>
             enc_run <= 8224 /\ enc_run <= U16_MAX
       /\ pc = "row_enc" =>
             LET same == RowPixel(index) = previous_pixel
                 counted == enc_run + (IF same THEN 1 ELSE 0)
                 last == index = RowLen - 1
             IN  /\ counted <= 8224
                 /\ IF counted > 0 /\ (counted = 8224 \/ ~same \/ last)
                    THEN /\ enc_run' = 0
                         /\ IsRunOpcode(SubSeq(enc_dest', dest_pos + 1, dest_pos'), counted)
                    ELSE /\ enc_run' = counted
                         /\ same => dest_pos' = dest_pos
                 /\ last <=> pc' = "row_footer"
       /\ pc \in {"row_footer", "row_ready"} => enc_run = 0
       /\ pc = "row_ready" =>
             /\ PixelsOf(OpcodeData, 1) = ToInt(width) * ToInt(height)
             /\ ToInt(width) * ToInt(height) = RowLen]_vars

\* A row of more than 8224 initial pixels has been encoded: the run was
\* flushed at 8224 and the pixels after it are a short run.
C26_Witness ==
    /\ pc = "row_ready"
    /\ call.count = RUN_CAP + MaxExtra /\ ~call.has_next /\ call.pixel = INITIAL_PIXEL
    /\ OpcodeData = <<127, 255, 64 + MaxExtra - 1>>
    /\ enc_run = 0 /\ index = RUN_CAP + MaxExtra

\* C29: for a source of at least width * height * channels bytes and a
\* destination of at least width * height * (channels + 1) + 14 + 4 bytes,
\* qoi_encode writes no more than channels + 1 opcode bytes for each pixel it
\* has gone through, never writes past the destination, and returns Ok with a
\* count of at most width * height * (channels + 1) + 18.
C29_WorstCaseSize ==
    LET pixels == ToInt(FullMul(width, height))
        per_pixel == ChannelsLen(channels) + 1
        bound == HEADER_SIZE + pixels * per_pixel + PADDING
    IN  (enc_api = "qoi_encode" /\ SourceCovers /\ Len(enc_dest) >= bound) =>
            /\ enc_result.kind # "Panic"
            /\ pc # "enc_failed"
            /\ pc \in {"enc_loop", "enc_footer"} =>
                  dest_pos <= HEADER_SIZE + index * per_pixel
            /\ Encoded => (enc_result.kind = "Ok" /\ enc_result.len <= bound)

\* The same for images of at least one pixel.
C29_WorstCaseSizeNonEmpty ==
    (~IsZero(width) /\ ~IsZero(height)) => C29_WorstCaseSize

====
